---------------------------- MODULE Spec2Model ----------------------------
(***************************************************************************)
(* A model of ProLink's tree-label cleaning (modules/subprocess_functions) *)
(* and of its accession filter (modules/uniprot_sequences).                *)
(*                                                                         *)
(* Text is modelled character by character: a Python str is the sequence   *)
(* of its code points (ord of each character), and every regular           *)
(* expression of the source is an operator that computes what re.sub and   *)
(* re.search compute on it.  The patterns are str patterns, so \d, \s, \w   *)
(* and re.IGNORECASE follow Unicode; the tables below are those of         *)
(* CPython 3.11, where re.escape leaves '_' unescaped.                     *)
(***************************************************************************)
EXTENDS Integers, Sequences, FiniteSets, TLC

(***************************************************************************)
(* Character classes of the regular expressions.                           *)
(***************************************************************************)
\* "A".."Z", "a".."z", "0".."9"
Upper == 65..90
Lower == 97..122
AsciiDigit == 48..57

\* the set of the ranges a table lists as first, last, first, last, ...
Ranges(table) == {table[2 * k - 1]..table[2 * k] : k \in 1..(Len(table) \div 2)}

\* \d: the decimal digits of Unicode, the first and last of each range
DigitRanges ==
    <<
      48, 57, 1632, 1641, 1776, 1785, 1984, 1993, 2406, 2415, 2534, 2543,
      2662, 2671, 2790, 2799, 2918, 2927, 3046, 3055, 3174, 3183, 3302, 3311,
      3430, 3439, 3558, 3567, 3664, 3673, 3792, 3801, 3872, 3881, 4160, 4169,
      4240, 4249, 6112, 6121, 6160, 6169, 6470, 6479, 6608, 6617, 6784, 6793,
      6800, 6809, 6992, 7001, 7088, 7097, 7232, 7241, 7248, 7257, 42528, 42537,
      43216, 43225, 43264, 43273, 43472, 43481, 43504, 43513, 43600, 43609, 44016, 44025,
      65296, 65305, 66720, 66729, 68912, 68921, 69734, 69743, 69872, 69881, 69942, 69951,
      70096, 70105, 70384, 70393, 70736, 70745, 70864, 70873, 71248, 71257, 71360, 71369,
      71472, 71481, 71904, 71913, 72016, 72025, 72784, 72793, 73040, 73049, 73120, 73129,
      92768, 92777, 92864, 92873, 93008, 93017, 120782, 120831, 123200, 123209, 123632, 123641,
      125264, 125273, 130032, 130041 >>
Digit == UNION Ranges(DigitRanges)

\* \s, and the characters str.strip() removes
Space ==
    {
      9, 10, 11, 12, 13, 28, 29, 30, 31, 32, 133, 160,
      5760, 8192, 8193, 8194, 8195, 8196, 8197, 8198, 8199, 8200, 8201, 8202,
      8232, 8233, 8239, 8287, 12288 }

\* \w: the letters and digits of Unicode and "_", the first and last of each range
WordRanges ==
    <<
      48, 57, 65, 90, 95, 95, 97, 122, 170, 170, 178, 179,
      181, 181, 185, 186, 188, 190, 192, 214, 216, 246, 248, 705,
      710, 721, 736, 740, 748, 748, 750, 750, 880, 884, 886, 887,
      890, 893, 895, 895, 902, 902, 904, 906, 908, 908, 910, 929,
      931, 1013, 1015, 1153, 1162, 1327, 1329, 1366, 1369, 1369, 1376, 1416,
      1488, 1514, 1519, 1522, 1568, 1610, 1632, 1641, 1646, 1647, 1649, 1747,
      1749, 1749, 1765, 1766, 1774, 1788, 1791, 1791, 1808, 1808, 1810, 1839,
      1869, 1957, 1969, 1969, 1984, 2026, 2036, 2037, 2042, 2042, 2048, 2069,
      2074, 2074, 2084, 2084, 2088, 2088, 2112, 2136, 2144, 2154, 2160, 2183,
      2185, 2190, 2208, 2249, 2308, 2361, 2365, 2365, 2384, 2384, 2392, 2401,
      2406, 2415, 2417, 2432, 2437, 2444, 2447, 2448, 2451, 2472, 2474, 2480,
      2482, 2482, 2486, 2489, 2493, 2493, 2510, 2510, 2524, 2525, 2527, 2529,
      2534, 2545, 2548, 2553, 2556, 2556, 2565, 2570, 2575, 2576, 2579, 2600,
      2602, 2608, 2610, 2611, 2613, 2614, 2616, 2617, 2649, 2652, 2654, 2654,
      2662, 2671, 2674, 2676, 2693, 2701, 2703, 2705, 2707, 2728, 2730, 2736,
      2738, 2739, 2741, 2745, 2749, 2749, 2768, 2768, 2784, 2785, 2790, 2799,
      2809, 2809, 2821, 2828, 2831, 2832, 2835, 2856, 2858, 2864, 2866, 2867,
      2869, 2873, 2877, 2877, 2908, 2909, 2911, 2913, 2918, 2927, 2929, 2935,
      2947, 2947, 2949, 2954, 2958, 2960, 2962, 2965, 2969, 2970, 2972, 2972,
      2974, 2975, 2979, 2980, 2984, 2986, 2990, 3001, 3024, 3024, 3046, 3058,
      3077, 3084, 3086, 3088, 3090, 3112, 3114, 3129, 3133, 3133, 3160, 3162,
      3165, 3165, 3168, 3169, 3174, 3183, 3192, 3198, 3200, 3200, 3205, 3212,
      3214, 3216, 3218, 3240, 3242, 3251, 3253, 3257, 3261, 3261, 3293, 3294,
      3296, 3297, 3302, 3311, 3313, 3314, 3332, 3340, 3342, 3344, 3346, 3386,
      3389, 3389, 3406, 3406, 3412, 3414, 3416, 3425, 3430, 3448, 3450, 3455,
      3461, 3478, 3482, 3505, 3507, 3515, 3517, 3517, 3520, 3526, 3558, 3567,
      3585, 3632, 3634, 3635, 3648, 3654, 3664, 3673, 3713, 3714, 3716, 3716,
      3718, 3722, 3724, 3747, 3749, 3749, 3751, 3760, 3762, 3763, 3773, 3773,
      3776, 3780, 3782, 3782, 3792, 3801, 3804, 3807, 3840, 3840, 3872, 3891,
      3904, 3911, 3913, 3948, 3976, 3980, 4096, 4138, 4159, 4169, 4176, 4181,
      4186, 4189, 4193, 4193, 4197, 4198, 4206, 4208, 4213, 4225, 4238, 4238,
      4240, 4249, 4256, 4293, 4295, 4295, 4301, 4301, 4304, 4346, 4348, 4680,
      4682, 4685, 4688, 4694, 4696, 4696, 4698, 4701, 4704, 4744, 4746, 4749,
      4752, 4784, 4786, 4789, 4792, 4798, 4800, 4800, 4802, 4805, 4808, 4822,
      4824, 4880, 4882, 4885, 4888, 4954, 4969, 4988, 4992, 5007, 5024, 5109,
      5112, 5117, 5121, 5740, 5743, 5759, 5761, 5786, 5792, 5866, 5870, 5880,
      5888, 5905, 5919, 5937, 5952, 5969, 5984, 5996, 5998, 6000, 6016, 6067,
      6103, 6103, 6108, 6108, 6112, 6121, 6128, 6137, 6160, 6169, 6176, 6264,
      6272, 6276, 6279, 6312, 6314, 6314, 6320, 6389, 6400, 6430, 6470, 6509,
      6512, 6516, 6528, 6571, 6576, 6601, 6608, 6618, 6656, 6678, 6688, 6740,
      6784, 6793, 6800, 6809, 6823, 6823, 6917, 6963, 6981, 6988, 6992, 7001,
      7043, 7072, 7086, 7141, 7168, 7203, 7232, 7241, 7245, 7293, 7296, 7304,
      7312, 7354, 7357, 7359, 7401, 7404, 7406, 7411, 7413, 7414, 7418, 7418,
      7424, 7615, 7680, 7957, 7960, 7965, 7968, 8005, 8008, 8013, 8016, 8023,
      8025, 8025, 8027, 8027, 8029, 8029, 8031, 8061, 8064, 8116, 8118, 8124,
      8126, 8126, 8130, 8132, 8134, 8140, 8144, 8147, 8150, 8155, 8160, 8172,
      8178, 8180, 8182, 8188, 8304, 8305, 8308, 8313, 8319, 8329, 8336, 8348,
      8450, 8450, 8455, 8455, 8458, 8467, 8469, 8469, 8473, 8477, 8484, 8484,
      8486, 8486, 8488, 8488, 8490, 8493, 8495, 8505, 8508, 8511, 8517, 8521,
      8526, 8526, 8528, 8585, 9312, 9371, 9450, 9471, 10102, 10131, 11264, 11492,
      11499, 11502, 11506, 11507, 11517, 11517, 11520, 11557, 11559, 11559, 11565, 11565,
      11568, 11623, 11631, 11631, 11648, 11670, 11680, 11686, 11688, 11694, 11696, 11702,
      11704, 11710, 11712, 11718, 11720, 11726, 11728, 11734, 11736, 11742, 11823, 11823,
      12293, 12295, 12321, 12329, 12337, 12341, 12344, 12348, 12353, 12438, 12445, 12447,
      12449, 12538, 12540, 12543, 12549, 12591, 12593, 12686, 12690, 12693, 12704, 12735,
      12784, 12799, 12832, 12841, 12872, 12879, 12881, 12895, 12928, 12937, 12977, 12991,
      13312, 19903, 19968, 42124, 42192, 42237, 42240, 42508, 42512, 42539, 42560, 42606,
      42623, 42653, 42656, 42735, 42775, 42783, 42786, 42888, 42891, 42954, 42960, 42961,
      42963, 42963, 42965, 42969, 42994, 43009, 43011, 43013, 43015, 43018, 43020, 43042,
      43056, 43061, 43072, 43123, 43138, 43187, 43216, 43225, 43250, 43255, 43259, 43259,
      43261, 43262, 43264, 43301, 43312, 43334, 43360, 43388, 43396, 43442, 43471, 43481,
      43488, 43492, 43494, 43518, 43520, 43560, 43584, 43586, 43588, 43595, 43600, 43609,
      43616, 43638, 43642, 43642, 43646, 43695, 43697, 43697, 43701, 43702, 43705, 43709,
      43712, 43712, 43714, 43714, 43739, 43741, 43744, 43754, 43762, 43764, 43777, 43782,
      43785, 43790, 43793, 43798, 43808, 43814, 43816, 43822, 43824, 43866, 43868, 43881,
      43888, 44002, 44016, 44025, 44032, 55203, 55216, 55238, 55243, 55291, 63744, 64109,
      64112, 64217, 64256, 64262, 64275, 64279, 64285, 64285, 64287, 64296, 64298, 64310,
      64312, 64316, 64318, 64318, 64320, 64321, 64323, 64324, 64326, 64433, 64467, 64829,
      64848, 64911, 64914, 64967, 65008, 65019, 65136, 65140, 65142, 65276, 65296, 65305,
      65313, 65338, 65345, 65370, 65382, 65470, 65474, 65479, 65482, 65487, 65490, 65495,
      65498, 65500, 65536, 65547, 65549, 65574, 65576, 65594, 65596, 65597, 65599, 65613,
      65616, 65629, 65664, 65786, 65799, 65843, 65856, 65912, 65930, 65931, 66176, 66204,
      66208, 66256, 66273, 66299, 66304, 66339, 66349, 66378, 66384, 66421, 66432, 66461,
      66464, 66499, 66504, 66511, 66513, 66517, 66560, 66717, 66720, 66729, 66736, 66771,
      66776, 66811, 66816, 66855, 66864, 66915, 66928, 66938, 66940, 66954, 66956, 66962,
      66964, 66965, 66967, 66977, 66979, 66993, 66995, 67001, 67003, 67004, 67072, 67382,
      67392, 67413, 67424, 67431, 67456, 67461, 67463, 67504, 67506, 67514, 67584, 67589,
      67592, 67592, 67594, 67637, 67639, 67640, 67644, 67644, 67647, 67669, 67672, 67702,
      67705, 67742, 67751, 67759, 67808, 67826, 67828, 67829, 67835, 67867, 67872, 67897,
      67968, 68023, 68028, 68047, 68050, 68096, 68112, 68115, 68117, 68119, 68121, 68149,
      68160, 68168, 68192, 68222, 68224, 68255, 68288, 68295, 68297, 68324, 68331, 68335,
      68352, 68405, 68416, 68437, 68440, 68466, 68472, 68497, 68521, 68527, 68608, 68680,
      68736, 68786, 68800, 68850, 68858, 68899, 68912, 68921, 69216, 69246, 69248, 69289,
      69296, 69297, 69376, 69415, 69424, 69445, 69457, 69460, 69488, 69505, 69552, 69579,
      69600, 69622, 69635, 69687, 69714, 69743, 69745, 69746, 69749, 69749, 69763, 69807,
      69840, 69864, 69872, 69881, 69891, 69926, 69942, 69951, 69956, 69956, 69959, 69959,
      69968, 70002, 70006, 70006, 70019, 70066, 70081, 70084, 70096, 70106, 70108, 70108,
      70113, 70132, 70144, 70161, 70163, 70187, 70272, 70278, 70280, 70280, 70282, 70285,
      70287, 70301, 70303, 70312, 70320, 70366, 70384, 70393, 70405, 70412, 70415, 70416,
      70419, 70440, 70442, 70448, 70450, 70451, 70453, 70457, 70461, 70461, 70480, 70480,
      70493, 70497, 70656, 70708, 70727, 70730, 70736, 70745, 70751, 70753, 70784, 70831,
      70852, 70853, 70855, 70855, 70864, 70873, 71040, 71086, 71128, 71131, 71168, 71215,
      71236, 71236, 71248, 71257, 71296, 71338, 71352, 71352, 71360, 71369, 71424, 71450,
      71472, 71483, 71488, 71494, 71680, 71723, 71840, 71922, 71935, 71942, 71945, 71945,
      71948, 71955, 71957, 71958, 71960, 71983, 71999, 71999, 72001, 72001, 72016, 72025,
      72096, 72103, 72106, 72144, 72161, 72161, 72163, 72163, 72192, 72192, 72203, 72242,
      72250, 72250, 72272, 72272, 72284, 72329, 72349, 72349, 72368, 72440, 72704, 72712,
      72714, 72750, 72768, 72768, 72784, 72812, 72818, 72847, 72960, 72966, 72968, 72969,
      72971, 73008, 73030, 73030, 73040, 73049, 73056, 73061, 73063, 73064, 73066, 73097,
      73112, 73112, 73120, 73129, 73440, 73458, 73648, 73648, 73664, 73684, 73728, 74649,
      74752, 74862, 74880, 75075, 77712, 77808, 77824, 78894, 82944, 83526, 92160, 92728,
      92736, 92766, 92768, 92777, 92784, 92862, 92864, 92873, 92880, 92909, 92928, 92975,
      92992, 92995, 93008, 93017, 93019, 93025, 93027, 93047, 93053, 93071, 93760, 93846,
      93952, 94026, 94032, 94032, 94099, 94111, 94176, 94177, 94179, 94179, 94208, 100343,
      100352, 101589, 101632, 101640, 110576, 110579, 110581, 110587, 110589, 110590, 110592, 110882,
      110928, 110930, 110948, 110951, 110960, 111355, 113664, 113770, 113776, 113788, 113792, 113800,
      113808, 113817, 119520, 119539, 119648, 119672, 119808, 119892, 119894, 119964, 119966, 119967,
      119970, 119970, 119973, 119974, 119977, 119980, 119982, 119993, 119995, 119995, 119997, 120003,
      120005, 120069, 120071, 120074, 120077, 120084, 120086, 120092, 120094, 120121, 120123, 120126,
      120128, 120132, 120134, 120134, 120138, 120144, 120146, 120485, 120488, 120512, 120514, 120538,
      120540, 120570, 120572, 120596, 120598, 120628, 120630, 120654, 120656, 120686, 120688, 120712,
      120714, 120744, 120746, 120770, 120772, 120779, 120782, 120831, 122624, 122654, 123136, 123180,
      123191, 123197, 123200, 123209, 123214, 123214, 123536, 123565, 123584, 123627, 123632, 123641,
      124896, 124902, 124904, 124907, 124909, 124910, 124912, 124926, 124928, 125124, 125127, 125135,
      125184, 125251, 125259, 125259, 125264, 125273, 126065, 126123, 126125, 126127, 126129, 126132,
      126209, 126253, 126255, 126269, 126464, 126467, 126469, 126495, 126497, 126498, 126500, 126500,
      126503, 126503, 126505, 126514, 126516, 126519, 126521, 126521, 126523, 126523, 126530, 126530,
      126535, 126535, 126537, 126537, 126539, 126539, 126541, 126543, 126545, 126546, 126548, 126548,
      126551, 126551, 126553, 126553, 126555, 126555, 126557, 126557, 126559, 126559, 126561, 126562,
      126564, 126564, 126567, 126570, 126572, 126578, 126580, 126583, 126585, 126588, 126590, 126590,
      126592, 126601, 126603, 126619, 126625, 126627, 126629, 126633, 126635, 126651, 127232, 127244,
      130032, 130041, 131072, 173791, 173824, 177976, 177984, 178205, 178208, 183969, 183984, 191456,
      194560, 195101, 196608, 201546 >>
WordChar == UNION Ranges(WordRanges)

\* re.IGNORECASE: c, k, c, k, ... for every character c that is not its own key k.
\* Two characters match when their keys are equal; the key of c is its
\* lower case, or the least member of the group of lower-case characters
\* the engine holds equivalent ("i" and dotless i, "s" and long s, ...).
FoldPairs ==
    <<
      65, 97, 66, 98, 67, 99, 68, 100, 69, 101, 70, 102,
      71, 103, 72, 104, 73, 105, 74, 106, 75, 107, 76, 108,
      77, 109, 78, 110, 79, 111, 80, 112, 81, 113, 82, 114,
      83, 115, 84, 116, 85, 117, 86, 118, 87, 119, 88, 120,
      89, 121, 90, 122, 192, 224, 193, 225, 194, 226, 195, 227,
      196, 228, 197, 229, 198, 230, 199, 231, 200, 232, 201, 233,
      202, 234, 203, 235, 204, 236, 205, 237, 206, 238, 207, 239,
      208, 240, 209, 241, 210, 242, 211, 243, 212, 244, 213, 245,
      214, 246, 216, 248, 217, 249, 218, 250, 219, 251, 220, 252,
      221, 253, 222, 254, 256, 257, 258, 259, 260, 261, 262, 263,
      264, 265, 266, 267, 268, 269, 270, 271, 272, 273, 274, 275,
      276, 277, 278, 279, 280, 281, 282, 283, 284, 285, 286, 287,
      288, 289, 290, 291, 292, 293, 294, 295, 296, 297, 298, 299,
      300, 301, 302, 303, 304, 105, 305, 105, 306, 307, 308, 309,
      310, 311, 313, 314, 315, 316, 317, 318, 319, 320, 321, 322,
      323, 324, 325, 326, 327, 328, 330, 331, 332, 333, 334, 335,
      336, 337, 338, 339, 340, 341, 342, 343, 344, 345, 346, 347,
      348, 349, 350, 351, 352, 353, 354, 355, 356, 357, 358, 359,
      360, 361, 362, 363, 364, 365, 366, 367, 368, 369, 370, 371,
      372, 373, 374, 375, 376, 255, 377, 378, 379, 380, 381, 382,
      383, 115, 385, 595, 386, 387, 388, 389, 390, 596, 391, 392,
      393, 598, 394, 599, 395, 396, 398, 477, 399, 601, 400, 603,
      401, 402, 403, 608, 404, 611, 406, 617, 407, 616, 408, 409,
      412, 623, 413, 626, 415, 629, 416, 417, 418, 419, 420, 421,
      422, 640, 423, 424, 425, 643, 428, 429, 430, 648, 431, 432,
      433, 650, 434, 651, 435, 436, 437, 438, 439, 658, 440, 441,
      444, 445, 452, 454, 453, 454, 455, 457, 456, 457, 458, 460,
      459, 460, 461, 462, 463, 464, 465, 466, 467, 468, 469, 470,
      471, 472, 473, 474, 475, 476, 478, 479, 480, 481, 482, 483,
      484, 485, 486, 487, 488, 489, 490, 491, 492, 493, 494, 495,
      497, 499, 498, 499, 500, 501, 502, 405, 503, 447, 504, 505,
      506, 507, 508, 509, 510, 511, 512, 513, 514, 515, 516, 517,
      518, 519, 520, 521, 522, 523, 524, 525, 526, 527, 528, 529,
      530, 531, 532, 533, 534, 535, 536, 537, 538, 539, 540, 541,
      542, 543, 544, 414, 546, 547, 548, 549, 550, 551, 552, 553,
      554, 555, 556, 557, 558, 559, 560, 561, 562, 563, 570, 11365,
      571, 572, 573, 410, 574, 11366, 577, 578, 579, 384, 580, 649,
      581, 652, 582, 583, 584, 585, 586, 587, 588, 589, 590, 591,
      880, 881, 882, 883, 886, 887, 895, 1011, 902, 940, 904, 941,
      905, 942, 906, 943, 908, 972, 910, 973, 911, 974, 913, 945,
      914, 946, 915, 947, 916, 948, 917, 949, 918, 950, 919, 951,
      920, 952, 921, 837, 922, 954, 923, 955, 924, 181, 925, 957,
      926, 958, 927, 959, 928, 960, 929, 961, 931, 962, 932, 964,
      933, 965, 934, 966, 935, 967, 936, 968, 937, 969, 938, 970,
      939, 971, 953, 837, 956, 181, 963, 962, 975, 983, 976, 946,
      977, 952, 981, 966, 982, 960, 984, 985, 986, 987, 988, 989,
      990, 991, 992, 993, 994, 995, 996, 997, 998, 999, 1000, 1001,
      1002, 1003, 1004, 1005, 1006, 1007, 1008, 954, 1009, 961, 1012, 952,
      1013, 949, 1015, 1016, 1017, 1010, 1018, 1019, 1021, 891, 1022, 892,
      1023, 893, 1024, 1104, 1025, 1105, 1026, 1106, 1027, 1107, 1028, 1108,
      1029, 1109, 1030, 1110, 1031, 1111, 1032, 1112, 1033, 1113, 1034, 1114,
      1035, 1115, 1036, 1116, 1037, 1117, 1038, 1118, 1039, 1119, 1040, 1072,
      1041, 1073, 1042, 1074, 1043, 1075, 1044, 1076, 1045, 1077, 1046, 1078,
      1047, 1079, 1048, 1080, 1049, 1081, 1050, 1082, 1051, 1083, 1052, 1084,
      1053, 1085, 1054, 1086, 1055, 1087, 1056, 1088, 1057, 1089, 1058, 1090,
      1059, 1091, 1060, 1092, 1061, 1093, 1062, 1094, 1063, 1095, 1064, 1096,
      1065, 1097, 1066, 1098, 1067, 1099, 1068, 1100, 1069, 1101, 1070, 1102,
      1071, 1103, 1120, 1121, 1122, 1123, 1124, 1125, 1126, 1127, 1128, 1129,
      1130, 1131, 1132, 1133, 1134, 1135, 1136, 1137, 1138, 1139, 1140, 1141,
      1142, 1143, 1144, 1145, 1146, 1147, 1148, 1149, 1150, 1151, 1152, 1153,
      1162, 1163, 1164, 1165, 1166, 1167, 1168, 1169, 1170, 1171, 1172, 1173,
      1174, 1175, 1176, 1177, 1178, 1179, 1180, 1181, 1182, 1183, 1184, 1185,
      1186, 1187, 1188, 1189, 1190, 1191, 1192, 1193, 1194, 1195, 1196, 1197,
      1198, 1199, 1200, 1201, 1202, 1203, 1204, 1205, 1206, 1207, 1208, 1209,
      1210, 1211, 1212, 1213, 1214, 1215, 1216, 1231, 1217, 1218, 1219, 1220,
      1221, 1222, 1223, 1224, 1225, 1226, 1227, 1228, 1229, 1230, 1232, 1233,
      1234, 1235, 1236, 1237, 1238, 1239, 1240, 1241, 1242, 1243, 1244, 1245,
      1246, 1247, 1248, 1249, 1250, 1251, 1252, 1253, 1254, 1255, 1256, 1257,
      1258, 1259, 1260, 1261, 1262, 1263, 1264, 1265, 1266, 1267, 1268, 1269,
      1270, 1271, 1272, 1273, 1274, 1275, 1276, 1277, 1278, 1279, 1280, 1281,
      1282, 1283, 1284, 1285, 1286, 1287, 1288, 1289, 1290, 1291, 1292, 1293,
      1294, 1295, 1296, 1297, 1298, 1299, 1300, 1301, 1302, 1303, 1304, 1305,
      1306, 1307, 1308, 1309, 1310, 1311, 1312, 1313, 1314, 1315, 1316, 1317,
      1318, 1319, 1320, 1321, 1322, 1323, 1324, 1325, 1326, 1327, 1329, 1377,
      1330, 1378, 1331, 1379, 1332, 1380, 1333, 1381, 1334, 1382, 1335, 1383,
      1336, 1384, 1337, 1385, 1338, 1386, 1339, 1387, 1340, 1388, 1341, 1389,
      1342, 1390, 1343, 1391, 1344, 1392, 1345, 1393, 1346, 1394, 1347, 1395,
      1348, 1396, 1349, 1397, 1350, 1398, 1351, 1399, 1352, 1400, 1353, 1401,
      1354, 1402, 1355, 1403, 1356, 1404, 1357, 1405, 1358, 1406, 1359, 1407,
      1360, 1408, 1361, 1409, 1362, 1410, 1363, 1411, 1364, 1412, 1365, 1413,
      1366, 1414, 4256, 11520, 4257, 11521, 4258, 11522, 4259, 11523, 4260, 11524,
      4261, 11525, 4262, 11526, 4263, 11527, 4264, 11528, 4265, 11529, 4266, 11530,
      4267, 11531, 4268, 11532, 4269, 11533, 4270, 11534, 4271, 11535, 4272, 11536,
      4273, 11537, 4274, 11538, 4275, 11539, 4276, 11540, 4277, 11541, 4278, 11542,
      4279, 11543, 4280, 11544, 4281, 11545, 4282, 11546, 4283, 11547, 4284, 11548,
      4285, 11549, 4286, 11550, 4287, 11551, 4288, 11552, 4289, 11553, 4290, 11554,
      4291, 11555, 4292, 11556, 4293, 11557, 4295, 11559, 4301, 11565, 5024, 43888,
      5025, 43889, 5026, 43890, 5027, 43891, 5028, 43892, 5029, 43893, 5030, 43894,
      5031, 43895, 5032, 43896, 5033, 43897, 5034, 43898, 5035, 43899, 5036, 43900,
      5037, 43901, 5038, 43902, 5039, 43903, 5040, 43904, 5041, 43905, 5042, 43906,
      5043, 43907, 5044, 43908, 5045, 43909, 5046, 43910, 5047, 43911, 5048, 43912,
      5049, 43913, 5050, 43914, 5051, 43915, 5052, 43916, 5053, 43917, 5054, 43918,
      5055, 43919, 5056, 43920, 5057, 43921, 5058, 43922, 5059, 43923, 5060, 43924,
      5061, 43925, 5062, 43926, 5063, 43927, 5064, 43928, 5065, 43929, 5066, 43930,
      5067, 43931, 5068, 43932, 5069, 43933, 5070, 43934, 5071, 43935, 5072, 43936,
      5073, 43937, 5074, 43938, 5075, 43939, 5076, 43940, 5077, 43941, 5078, 43942,
      5079, 43943, 5080, 43944, 5081, 43945, 5082, 43946, 5083, 43947, 5084, 43948,
      5085, 43949, 5086, 43950, 5087, 43951, 5088, 43952, 5089, 43953, 5090, 43954,
      5091, 43955, 5092, 43956, 5093, 43957, 5094, 43958, 5095, 43959, 5096, 43960,
      5097, 43961, 5098, 43962, 5099, 43963, 5100, 43964, 5101, 43965, 5102, 43966,
      5103, 43967, 5104, 5112, 5105, 5113, 5106, 5114, 5107, 5115, 5108, 5116,
      5109, 5117, 7296, 1074, 7297, 1076, 7298, 1086, 7299, 1089, 7300, 1090,
      7301, 1090, 7302, 1098, 7303, 1123, 7312, 4304, 7313, 4305, 7314, 4306,
      7315, 4307, 7316, 4308, 7317, 4309, 7318, 4310, 7319, 4311, 7320, 4312,
      7321, 4313, 7322, 4314, 7323, 4315, 7324, 4316, 7325, 4317, 7326, 4318,
      7327, 4319, 7328, 4320, 7329, 4321, 7330, 4322, 7331, 4323, 7332, 4324,
      7333, 4325, 7334, 4326, 7335, 4327, 7336, 4328, 7337, 4329, 7338, 4330,
      7339, 4331, 7340, 4332, 7341, 4333, 7342, 4334, 7343, 4335, 7344, 4336,
      7345, 4337, 7346, 4338, 7347, 4339, 7348, 4340, 7349, 4341, 7350, 4342,
      7351, 4343, 7352, 4344, 7353, 4345, 7354, 4346, 7357, 4349, 7358, 4350,
      7359, 4351, 7680, 7681, 7682, 7683, 7684, 7685, 7686, 7687, 7688, 7689,
      7690, 7691, 7692, 7693, 7694, 7695, 7696, 7697, 7698, 7699, 7700, 7701,
      7702, 7703, 7704, 7705, 7706, 7707, 7708, 7709, 7710, 7711, 7712, 7713,
      7714, 7715, 7716, 7717, 7718, 7719, 7720, 7721, 7722, 7723, 7724, 7725,
      7726, 7727, 7728, 7729, 7730, 7731, 7732, 7733, 7734, 7735, 7736, 7737,
      7738, 7739, 7740, 7741, 7742, 7743, 7744, 7745, 7746, 7747, 7748, 7749,
      7750, 7751, 7752, 7753, 7754, 7755, 7756, 7757, 7758, 7759, 7760, 7761,
      7762, 7763, 7764, 7765, 7766, 7767, 7768, 7769, 7770, 7771, 7772, 7773,
      7774, 7775, 7776, 7777, 7778, 7779, 7780, 7781, 7782, 7783, 7784, 7785,
      7786, 7787, 7788, 7789, 7790, 7791, 7792, 7793, 7794, 7795, 7796, 7797,
      7798, 7799, 7800, 7801, 7802, 7803, 7804, 7805, 7806, 7807, 7808, 7809,
      7810, 7811, 7812, 7813, 7814, 7815, 7816, 7817, 7818, 7819, 7820, 7821,
      7822, 7823, 7824, 7825, 7826, 7827, 7828, 7829, 7835, 7777, 7838, 223,
      7840, 7841, 7842, 7843, 7844, 7845, 7846, 7847, 7848, 7849, 7850, 7851,
      7852, 7853, 7854, 7855, 7856, 7857, 7858, 7859, 7860, 7861, 7862, 7863,
      7864, 7865, 7866, 7867, 7868, 7869, 7870, 7871, 7872, 7873, 7874, 7875,
      7876, 7877, 7878, 7879, 7880, 7881, 7882, 7883, 7884, 7885, 7886, 7887,
      7888, 7889, 7890, 7891, 7892, 7893, 7894, 7895, 7896, 7897, 7898, 7899,
      7900, 7901, 7902, 7903, 7904, 7905, 7906, 7907, 7908, 7909, 7910, 7911,
      7912, 7913, 7914, 7915, 7916, 7917, 7918, 7919, 7920, 7921, 7922, 7923,
      7924, 7925, 7926, 7927, 7928, 7929, 7930, 7931, 7932, 7933, 7934, 7935,
      7944, 7936, 7945, 7937, 7946, 7938, 7947, 7939, 7948, 7940, 7949, 7941,
      7950, 7942, 7951, 7943, 7960, 7952, 7961, 7953, 7962, 7954, 7963, 7955,
      7964, 7956, 7965, 7957, 7976, 7968, 7977, 7969, 7978, 7970, 7979, 7971,
      7980, 7972, 7981, 7973, 7982, 7974, 7983, 7975, 7992, 7984, 7993, 7985,
      7994, 7986, 7995, 7987, 7996, 7988, 7997, 7989, 7998, 7990, 7999, 7991,
      8008, 8000, 8009, 8001, 8010, 8002, 8011, 8003, 8012, 8004, 8013, 8005,
      8025, 8017, 8027, 8019, 8029, 8021, 8031, 8023, 8040, 8032, 8041, 8033,
      8042, 8034, 8043, 8035, 8044, 8036, 8045, 8037, 8046, 8038, 8047, 8039,
      8072, 8064, 8073, 8065, 8074, 8066, 8075, 8067, 8076, 8068, 8077, 8069,
      8078, 8070, 8079, 8071, 8088, 8080, 8089, 8081, 8090, 8082, 8091, 8083,
      8092, 8084, 8093, 8085, 8094, 8086, 8095, 8087, 8104, 8096, 8105, 8097,
      8106, 8098, 8107, 8099, 8108, 8100, 8109, 8101, 8110, 8102, 8111, 8103,
      8120, 8112, 8121, 8113, 8122, 8048, 8123, 8049, 8124, 8115, 8126, 837,
      8136, 8050, 8137, 8051, 8138, 8052, 8139, 8053, 8140, 8131, 8147, 912,
      8152, 8144, 8153, 8145, 8154, 8054, 8155, 8055, 8163, 944, 8168, 8160,
      8169, 8161, 8170, 8058, 8171, 8059, 8172, 8165, 8184, 8056, 8185, 8057,
      8186, 8060, 8187, 8061, 8188, 8179, 8486, 969, 8490, 107, 8491, 229,
      8498, 8526, 8544, 8560, 8545, 8561, 8546, 8562, 8547, 8563, 8548, 8564,
      8549, 8565, 8550, 8566, 8551, 8567, 8552, 8568, 8553, 8569, 8554, 8570,
      8555, 8571, 8556, 8572, 8557, 8573, 8558, 8574, 8559, 8575, 8579, 8580,
      9398, 9424, 9399, 9425, 9400, 9426, 9401, 9427, 9402, 9428, 9403, 9429,
      9404, 9430, 9405, 9431, 9406, 9432, 9407, 9433, 9408, 9434, 9409, 9435,
      9410, 9436, 9411, 9437, 9412, 9438, 9413, 9439, 9414, 9440, 9415, 9441,
      9416, 9442, 9417, 9443, 9418, 9444, 9419, 9445, 9420, 9446, 9421, 9447,
      9422, 9448, 9423, 9449, 11264, 11312, 11265, 11313, 11266, 11314, 11267, 11315,
      11268, 11316, 11269, 11317, 11270, 11318, 11271, 11319, 11272, 11320, 11273, 11321,
      11274, 11322, 11275, 11323, 11276, 11324, 11277, 11325, 11278, 11326, 11279, 11327,
      11280, 11328, 11281, 11329, 11282, 11330, 11283, 11331, 11284, 11332, 11285, 11333,
      11286, 11334, 11287, 11335, 11288, 11336, 11289, 11337, 11290, 11338, 11291, 11339,
      11292, 11340, 11293, 11341, 11294, 11342, 11295, 11343, 11296, 11344, 11297, 11345,
      11298, 11346, 11299, 11347, 11300, 11348, 11301, 11349, 11302, 11350, 11303, 11351,
      11304, 11352, 11305, 11353, 11306, 11354, 11307, 11355, 11308, 11356, 11309, 11357,
      11310, 11358, 11311, 11359, 11360, 11361, 11362, 619, 11363, 7549, 11364, 637,
      11367, 11368, 11369, 11370, 11371, 11372, 11373, 593, 11374, 625, 11375, 592,
      11376, 594, 11378, 11379, 11381, 11382, 11390, 575, 11391, 576, 11392, 11393,
      11394, 11395, 11396, 11397, 11398, 11399, 11400, 11401, 11402, 11403, 11404, 11405,
      11406, 11407, 11408, 11409, 11410, 11411, 11412, 11413, 11414, 11415, 11416, 11417,
      11418, 11419, 11420, 11421, 11422, 11423, 11424, 11425, 11426, 11427, 11428, 11429,
      11430, 11431, 11432, 11433, 11434, 11435, 11436, 11437, 11438, 11439, 11440, 11441,
      11442, 11443, 11444, 11445, 11446, 11447, 11448, 11449, 11450, 11451, 11452, 11453,
      11454, 11455, 11456, 11457, 11458, 11459, 11460, 11461, 11462, 11463, 11464, 11465,
      11466, 11467, 11468, 11469, 11470, 11471, 11472, 11473, 11474, 11475, 11476, 11477,
      11478, 11479, 11480, 11481, 11482, 11483, 11484, 11485, 11486, 11487, 11488, 11489,
      11490, 11491, 11499, 11500, 11501, 11502, 11506, 11507, 42560, 42561, 42562, 42563,
      42564, 42565, 42566, 42567, 42568, 42569, 42570, 7304, 42571, 7304, 42572, 42573,
      42574, 42575, 42576, 42577, 42578, 42579, 42580, 42581, 42582, 42583, 42584, 42585,
      42586, 42587, 42588, 42589, 42590, 42591, 42592, 42593, 42594, 42595, 42596, 42597,
      42598, 42599, 42600, 42601, 42602, 42603, 42604, 42605, 42624, 42625, 42626, 42627,
      42628, 42629, 42630, 42631, 42632, 42633, 42634, 42635, 42636, 42637, 42638, 42639,
      42640, 42641, 42642, 42643, 42644, 42645, 42646, 42647, 42648, 42649, 42650, 42651,
      42786, 42787, 42788, 42789, 42790, 42791, 42792, 42793, 42794, 42795, 42796, 42797,
      42798, 42799, 42802, 42803, 42804, 42805, 42806, 42807, 42808, 42809, 42810, 42811,
      42812, 42813, 42814, 42815, 42816, 42817, 42818, 42819, 42820, 42821, 42822, 42823,
      42824, 42825, 42826, 42827, 42828, 42829, 42830, 42831, 42832, 42833, 42834, 42835,
      42836, 42837, 42838, 42839, 42840, 42841, 42842, 42843, 42844, 42845, 42846, 42847,
      42848, 42849, 42850, 42851, 42852, 42853, 42854, 42855, 42856, 42857, 42858, 42859,
      42860, 42861, 42862, 42863, 42873, 42874, 42875, 42876, 42877, 7545, 42878, 42879,
      42880, 42881, 42882, 42883, 42884, 42885, 42886, 42887, 42891, 42892, 42893, 613,
      42896, 42897, 42898, 42899, 42902, 42903, 42904, 42905, 42906, 42907, 42908, 42909,
      42910, 42911, 42912, 42913, 42914, 42915, 42916, 42917, 42918, 42919, 42920, 42921,
      42922, 614, 42923, 604, 42924, 609, 42925, 620, 42926, 618, 42928, 670,
      42929, 647, 42930, 669, 42931, 43859, 42932, 42933, 42934, 42935, 42936, 42937,
      42938, 42939, 42940, 42941, 42942, 42943, 42944, 42945, 42946, 42947, 42948, 42900,
      42949, 642, 42950, 7566, 42951, 42952, 42953, 42954, 42960, 42961, 42966, 42967,
      42968, 42969, 42997, 42998, 64262, 64261, 65313, 65345, 65314, 65346, 65315, 65347,
      65316, 65348, 65317, 65349, 65318, 65350, 65319, 65351, 65320, 65352, 65321, 65353,
      65322, 65354, 65323, 65355, 65324, 65356, 65325, 65357, 65326, 65358, 65327, 65359,
      65328, 65360, 65329, 65361, 65330, 65362, 65331, 65363, 65332, 65364, 65333, 65365,
      65334, 65366, 65335, 65367, 65336, 65368, 65337, 65369, 65338, 65370, 66560, 66600,
      66561, 66601, 66562, 66602, 66563, 66603, 66564, 66604, 66565, 66605, 66566, 66606,
      66567, 66607, 66568, 66608, 66569, 66609, 66570, 66610, 66571, 66611, 66572, 66612,
      66573, 66613, 66574, 66614, 66575, 66615, 66576, 66616, 66577, 66617, 66578, 66618,
      66579, 66619, 66580, 66620, 66581, 66621, 66582, 66622, 66583, 66623, 66584, 66624,
      66585, 66625, 66586, 66626, 66587, 66627, 66588, 66628, 66589, 66629, 66590, 66630,
      66591, 66631, 66592, 66632, 66593, 66633, 66594, 66634, 66595, 66635, 66596, 66636,
      66597, 66637, 66598, 66638, 66599, 66639, 66736, 66776, 66737, 66777, 66738, 66778,
      66739, 66779, 66740, 66780, 66741, 66781, 66742, 66782, 66743, 66783, 66744, 66784,
      66745, 66785, 66746, 66786, 66747, 66787, 66748, 66788, 66749, 66789, 66750, 66790,
      66751, 66791, 66752, 66792, 66753, 66793, 66754, 66794, 66755, 66795, 66756, 66796,
      66757, 66797, 66758, 66798, 66759, 66799, 66760, 66800, 66761, 66801, 66762, 66802,
      66763, 66803, 66764, 66804, 66765, 66805, 66766, 66806, 66767, 66807, 66768, 66808,
      66769, 66809, 66770, 66810, 66771, 66811, 66928, 66967, 66929, 66968, 66930, 66969,
      66931, 66970, 66932, 66971, 66933, 66972, 66934, 66973, 66935, 66974, 66936, 66975,
      66937, 66976, 66938, 66977, 66940, 66979, 66941, 66980, 66942, 66981, 66943, 66982,
      66944, 66983, 66945, 66984, 66946, 66985, 66947, 66986, 66948, 66987, 66949, 66988,
      66950, 66989, 66951, 66990, 66952, 66991, 66953, 66992, 66954, 66993, 66956, 66995,
      66957, 66996, 66958, 66997, 66959, 66998, 66960, 66999, 66961, 67000, 66962, 67001,
      66964, 67003, 66965, 67004, 68736, 68800, 68737, 68801, 68738, 68802, 68739, 68803,
      68740, 68804, 68741, 68805, 68742, 68806, 68743, 68807, 68744, 68808, 68745, 68809,
      68746, 68810, 68747, 68811, 68748, 68812, 68749, 68813, 68750, 68814, 68751, 68815,
      68752, 68816, 68753, 68817, 68754, 68818, 68755, 68819, 68756, 68820, 68757, 68821,
      68758, 68822, 68759, 68823, 68760, 68824, 68761, 68825, 68762, 68826, 68763, 68827,
      68764, 68828, 68765, 68829, 68766, 68830, 68767, 68831, 68768, 68832, 68769, 68833,
      68770, 68834, 68771, 68835, 68772, 68836, 68773, 68837, 68774, 68838, 68775, 68839,
      68776, 68840, 68777, 68841, 68778, 68842, 68779, 68843, 68780, 68844, 68781, 68845,
      68782, 68846, 68783, 68847, 68784, 68848, 68785, 68849, 68786, 68850, 71840, 71872,
      71841, 71873, 71842, 71874, 71843, 71875, 71844, 71876, 71845, 71877, 71846, 71878,
      71847, 71879, 71848, 71880, 71849, 71881, 71850, 71882, 71851, 71883, 71852, 71884,
      71853, 71885, 71854, 71886, 71855, 71887, 71856, 71888, 71857, 71889, 71858, 71890,
      71859, 71891, 71860, 71892, 71861, 71893, 71862, 71894, 71863, 71895, 71864, 71896,
      71865, 71897, 71866, 71898, 71867, 71899, 71868, 71900, 71869, 71901, 71870, 71902,
      71871, 71903, 93760, 93792, 93761, 93793, 93762, 93794, 93763, 93795, 93764, 93796,
      93765, 93797, 93766, 93798, 93767, 93799, 93768, 93800, 93769, 93801, 93770, 93802,
      93771, 93803, 93772, 93804, 93773, 93805, 93774, 93806, 93775, 93807, 93776, 93808,
      93777, 93809, 93778, 93810, 93779, 93811, 93780, 93812, 93781, 93813, 93782, 93814,
      93783, 93815, 93784, 93816, 93785, 93817, 93786, 93818, 93787, 93819, 93788, 93820,
      93789, 93821, 93790, 93822, 93791, 93823, 125184, 125218, 125185, 125219, 125186, 125220,
      125187, 125221, 125188, 125222, 125189, 125223, 125190, 125224, 125191, 125225, 125192, 125226,
      125193, 125227, 125194, 125228, 125195, 125229, 125196, 125230, 125197, 125231, 125198, 125232,
      125199, 125233, 125200, 125234, 125201, 125235, 125202, 125236, 125203, 125237, 125204, 125238,
      125205, 125239, 125206, 125240, 125207, 125241, 125208, 125242, 125209, 125243, 125210, 125244,
      125211, 125245, 125212, 125246, 125213, 125247, 125214, 125248, 125215, 125249, 125216, 125250,
      125217, 125251 >>
FoldIndex == 1..(Len(FoldPairs) \div 2)
FoldTable ==
    [c \in {FoldPairs[2 * k - 1] : k \in FoldIndex} |->
        FoldPairs[2 * (CHOOSE k \in FoldIndex : FoldPairs[2 * k - 1] = c)]]
Fold(c) == IF c \in DOMAIN FoldTable THEN FoldTable[c] ELSE c

\* the characters a class of ASCII characters matches under re.IGNORECASE
IgnoreCase(cls) == cls \cup {c \in DOMAIN FoldTable : FoldTable[c] \in {Fold(x) : x \in cls}}

\* [A-Za-z0-9], re.IGNORECASE
Alnum == IgnoreCase(Upper \cup Lower \cup AsciiDigit)
\* [\s_]
SpaceUnderscore == Space \cup {95}
\* [-_\s] and [\s_-]
Separator == Space \cup {95, 45}
\* [A-Za-z0-9\.], re.IGNORECASE
AlnumDot == Alnum \cup {46}
\* the characters str.strip("'\"") removes
Quotes == {39, 34}

(***************************************************************************)
(* Scanning helpers.  Indices are 1-based; an end index is exclusive.      *)
(***************************************************************************)
Slice(s, i, e) == SubSeq(s, i, e - 1)

Min(S) == CHOOSE x \in S : \A y \in S : x <= y
Max(S) == CHOOSE x \in S : \A y \in S : y <= x

\* the index after the longest run of characters of cls that starts at i
RunEnd(s, i, cls) ==
    IF i > Len(s) THEN i
    ELSE Min({j \in i..(Len(s) + 1) : j > Len(s) \/ s[j] \notin cls})

\* the first index of the longest run of characters of cls that ends before e
RunStart(s, e, cls) ==
    IF e <= 1 THEN e
    ELSE Max({j \in 1..e : j = 1 \/ s[j - 1] \notin cls})

\* the literal lit stands at index i of s
LitAt(s, i, lit) ==
    /\ i + Len(lit) - 1 <= Len(s)
    /\ \A k \in 1..Len(lit) : s[i + k - 1] = lit[k]

\* the literal lit stands at index i of s, case ignored
LitAtFold(s, i, lit) ==
    /\ i + Len(lit) - 1 <= Len(s)
    /\ \A k \in 1..Len(lit) : Fold(s[i + k - 1]) = Fold(lit[k])

\* str.strip(chars)
Strip(s, chars) ==
    LET a == RunEnd(s, 1, chars)
        b == RunStart(s, Len(s) + 1, chars)
    IN  IF a >= b THEN <<>> ELSE Slice(s, a, b)

\* a replace that was left out
ReplaceSpaceMissing(s) == s

\* str.replace(" ", "_")
ReplaceSpace(s) == [i \in 1..Len(s) |-> IF s[i] = 32 THEN 95 ELSE s[i]]

(***************************************************************************)
(* clean_label, subprocess_functions.py lines 24-67.                       *)
(***************************************************************************)
\* r"WP[\s_]\d{9}\.\d"
WPCodeEnd(s, i) ==
    IF /\ i + 13 <= Len(s)
       /\ s[i] = 87 /\ s[i + 1] = 80
       /\ s[i + 2] \in SpaceUnderscore
       /\ \A k \in 3..11 : s[i + k] \in Digit
       /\ s[i + 12] = 46
       /\ s[i + 13] \in Digit
    THEN i + 14 ELSE 0

\* "MULTISPECIES:"
MultispeciesLit == <<77,85,76,84,73,83,80,69,67,73,69,83,58>>
\* r"MULTISPECIES:\s*", re.IGNORECASE
MultispeciesEnd(s, i) ==
    IF LitAtFold(s, i, MultispeciesLit)
    THEN RunEnd(s, i + Len(MultispeciesLit), Space) ELSE 0

\* re.escape(protein_name).replace(r'\_', r'[\s_]+'), re.IGNORECASE.
\* re.escape leaves '_' as it is and puts a backslash before a backslash, so
\* the replace finds '\_' only where the name holds a backslash followed by
\* '_': there the pattern reads \[ \s _ ]+ (a "[", one \s, a "_", one or more
\* "]").  Every other character of the name is a literal.  HintEnd is the
\* end of the match of the name from its k-th character at index p of s, or 0.
RECURSIVE HintEnd(_, _, _, _)
HintEnd(name, k, s, p) ==
    IF k > Len(name) THEN p
    ELSE IF name[k] = 92 /\ k < Len(name) /\ name[k + 1] = 95
    THEN IF /\ p + 3 <= Len(s)
            /\ s[p] = 91
            /\ s[p + 1] \in Space
            /\ s[p + 2] = 95
            /\ s[p + 3] = 93
         THEN LET ends == {e \in (p + 4)..RunEnd(s, p + 3, {93}) :
                              HintEnd(name, k + 2, s, e) > 0}
              IN  IF ends = {} THEN 0 ELSE HintEnd(name, k + 2, s, Max(ends))
         ELSE 0
    ELSE IF p <= Len(s) /\ Fold(s[p]) = Fold(name[k])
    THEN HintEnd(name, k + 1, s, p + 1)
    ELSE 0

ProteinEnd(protein_name, s, i) == HintEnd(protein_name, 1, s, i)

\* "unclassified"
UnclassifiedLit == <<117,110,99,108,97,115,115,105,102,105,101,100>>
\* \b at index i: exactly one of s[i-1], s[i] is a word character
Boundary(s, i) ==
    LET before == i > 1 /\ s[i - 1] \in WordChar
        after == i <= Len(s) /\ s[i] \in WordChar
    IN  before # after
\* r"\bunclassified\b", re.IGNORECASE
UnclassifiedEnd(s, i) ==
    IF /\ LitAtFold(s, i, UnclassifiedLit)
       /\ Boundary(s, i)
       /\ Boundary(s, i + Len(UnclassifiedLit))
    THEN i + Len(UnclassifiedLit) ELSE 0

\* "Same"
SameLit == <<83,97,109,101>>
\* "Domains"
DomainsLit == <<68,111,109,97,105,110,115>>
\* r"[-_\s]*Same[-_\s]*Domains", re.IGNORECASE
SameDomainsEnd(s, i) ==
    LET a == RunEnd(s, i, Separator)
        b == RunEnd(s, a + Len(SameLit), Separator)
    IN  IF LitAtFold(s, a, SameLit) /\ LitAtFold(s, b, DomainsLit)
        THEN b + Len(DomainsLit) ELSE 0

\* the end of the match at index i of one of the five noise patterns, or 0
\* when it does not match there
NoiseEnd(pattern, protein_name, s, i) ==
    CASE pattern = "wp" -> WPCodeEnd(s, i)
      [] pattern = "multispecies" -> MultispeciesEnd(s, i)
      [] pattern = "protein" -> ProteinEnd(protein_name, s, i)
      [] pattern = "unclassified" -> UnclassifiedEnd(s, i)
      [] pattern = "same_domains" -> SameDomainsEnd(s, i)

\* re.sub(pattern, "", s): matches are taken leftmost first and do not
\* overlap; an empty match removes nothing
SubEmpty(s, pattern, protein_name) ==
    LET n == Len(s)
        scan[i \in 1..(n + 1)] ==
            LET hits == {p \in i..n : NoiseEnd(pattern, protein_name, s, p) > p}
            IN  IF hits = {} THEN Slice(s, i, n + 1)
                ELSE LET p == Min(hits)
                     IN  Slice(s, i, p)
                            \o scan[NoiseEnd(pattern, protein_name, s, p)]
    IN  scan[1]

\* lines 39-53: the seven noise-removal steps
RemoveNoise(label, protein_name) ==
    LET s1 == Strip(label, Quotes)
        s2 == SubEmpty(s1, "wp", protein_name)
        s3 == SubEmpty(s2, "multispecies", protein_name)
        s4 == SubEmpty(s3, "protein", protein_name)
        s5 == SubEmpty(s4, "unclassified", protein_name)
        s6 == SubEmpty(s5, "same_domains", protein_name)
    IN  Strip(s6, {32, 95})

\* r"---C\d+" at index k, re.IGNORECASE: its end, or 0
ClusterEnd(s, k) ==
    IF /\ k + 4 <= Len(s)
       /\ s[k] = 45 /\ s[k + 1] = 45 /\ s[k + 2] = 45
       /\ Fold(s[k + 3]) = 99
       /\ s[k + 4] \in Digit
    THEN RunEnd(s, k + 4, Digit) ELSE 0

\* the cluster group made to follow the species with no separator at all
ClusterAfterOptional(s, e) ==
    LET r == RunEnd(s, e, Separator)
        k == IF r - 3 >= e THEN r - 3 ELSE e
    IN  IF ClusterEnd(s, k) > 0 THEN k ELSE 0

\* r"[\s_-]+(?P<cluster>---C\d+)" at index e: the index where the cluster
\* group starts, or 0.  The separators are the longest run from e and the
\* group is the last three hyphens of the run with what follows.
ClusterAfter(s, e) ==
    LET k == RunEnd(s, e, Separator) - 3
    IN  IF k > e /\ ClusterEnd(s, k) > 0 THEN k ELSE 0

\* s[i..e) matches r"[A-Za-z0-9]+(?:[_\s][A-Za-z0-9\.]+)*"
IsSpecies(s, i, e) ==
    /\ i < e
    /\ s[i] \in Alnum
    /\ s[e - 1] \in AlnumDot
    /\ \A k \in i..(e - 1) :
          \/ s[k] \in Alnum
          \/ s[k] = 46 /\ \E j \in i..(k - 1) : s[j] \in SpaceUnderscore
          \/ s[k] \in SpaceUnderscore /\ k > i /\ s[k - 1] \in AlnumDot

\* the indices where the species group of a match of the pattern can end:
\* a separator run leading to a cluster starts there, after a species name
SpeciesEnds(s) ==
    {e \in 2..Len(s) :
        /\ s[e] \in Separator
        /\ s[e - 1] \in AlnumDot
        /\ ClusterAfter(s, e) > 0
        /\ \E i \in 1..(e - 1) : IsSpecies(s, i, e)}

\* the match whose species group ends at e, from its leftmost start:
\* <<i, e, k, f>>, the species group s[i..e) and the cluster group s[k..f)
MatchEndingAt(s, e) ==
    LET i == Min({j \in 1..(e - 1) : IsSpecies(s, j, e)})
        k == ClusterAfter(s, e)
    IN  <<i, e, k, ClusterEnd(s, k)>>

\* the match a search that kept the last of the matches would return
PatternSearchLast(s) ==
    LET ends == SpeciesEnds(s)
    IN  IF ends = {} THEN <<>> ELSE MatchEndingAt(s, Max(ends))

\* pattern.search(label), lines 56-61: the leftmost match, <<>> when there
\* is none.  The species groups of two matches cannot overlap (a cluster
\* lies between their ends), so the leftmost match is the one whose species
\* group ends first, taken from its leftmost start.
PatternSearch(s) ==
    LET ends == SpeciesEnds(s)
    IN  IF ends = {} THEN <<>> ELSE MatchEndingAt(s, Min(ends))

\* lines 62-67
Extract(label) ==
    LET m == PatternSearch(label)
    IN  IF m # <<>>
        THEN LET species == ReplaceSpace(Strip(Slice(label, m[1], m[2]), Space))
                 cluster == Strip(Slice(label, m[3], m[4]), Space)
             IN  species \o <<95>> \o cluster
        ELSE label

clean_label(label, protein_name) == Extract(RemoveNoise(label, protein_name))

(***************************************************************************)
(* clean_newick_string, subprocess_functions.py lines 69-90.               *)
(***************************************************************************)
\* [A-Za-z0-9 _\.\-]
UnquotedChar == Alnum \cup {32, 95, 46, 45}
\* [0-9.eE+-]
BranchChar == AsciiDigit \cup {46, 101, 69, 43, 45}

\* the indices p where r"---C\d+" matches with its "---C" inside s[lo..hi)
ClustersIn(s, lo, hi) ==
    {p \in lo..(hi - 1) : ClusterEnd(s, p) > 0 /\ p + 4 <= hi}

\* r"'([^':]+---C\d+[^':]*)'" at index i (q the quote character): the end
\* of the match, or 0
QuotedEnd(s, i, q) ==
    IF i <= Len(s) /\ s[i] = q
    THEN LET r == Min({j \in (i + 1)..(Len(s) + 1) :
                          j > Len(s) \/ s[j] \in {q, 58}})
         IN  IF /\ r <= Len(s)
                /\ s[r] = q
                /\ ClustersIn(s, i + 2, r) # {}
             THEN r + 1 ELSE 0
    ELSE 0

\* r"([A-Za-z0-9 _\.\-]+---C\d+)" at index i: the end of the match, or 0.
\* The greedy class run gives way to the last cluster marker in it.
UnquotedEnd(s, i) ==
    IF i <= Len(s) /\ s[i] \in UnquotedChar
    THEN LET r == RunEnd(s, i, UnquotedChar)
             ps == ClustersIn(s, i + 1, r)
         IN  IF ps # {} THEN ClusterEnd(s, Max(ps)) ELSE 0
    ELSE 0

\* the three alternatives of group 1, tried in order at index i
NewickLabelEnd(s, i) ==
    IF QuotedEnd(s, i, 39) > 0 THEN QuotedEnd(s, i, 39)
    ELSE IF QuotedEnd(s, i, 34) > 0 THEN QuotedEnd(s, i, 34)
    ELSE UnquotedEnd(s, i)

\* r"(:[0-9.eE+-]+)?" at index m: the end of group 5, m when it is absent
BranchEnd(s, m) ==
    IF m + 1 <= Len(s) /\ s[m] = 58 /\ s[m + 1] \in BranchChar
    THEN RunEnd(s, m + 1, BranchChar) ELSE m

\* lines 81-89: the label part is cleaned, the branch length reattached
replacer(s, p, protein_name) ==
    LET le == NewickLabelEnd(s, p)
        be == BranchEnd(s, le)
        branch == Slice(s, le, be)
        label_part == Slice(s, p, le)
    IN  clean_label(label_part, protein_name) \o branch

\* pattern.sub(replacer, newick_str), line 90
clean_newick_string(newick_str, protein_name) ==
    LET n == Len(newick_str)
        scan[i \in 1..(n + 1)] ==
            LET hits == {p \in i..n : NewickLabelEnd(newick_str, p) > 0}
            IN  IF hits = {} THEN Slice(newick_str, i, n + 1)
                ELSE LET p == Min(hits)
                         be == BranchEnd(newick_str, NewickLabelEnd(newick_str, p))
                     IN  Slice(newick_str, i, p)
                            \o replacer(newick_str, p, protein_name)
                            \o scan[be]
    IN  scan[1]

(***************************************************************************)
(* State.  Each group of variables belongs to one of the operations below; *)
(* a specification that runs one operation leaves the other groups idle.  *)
(***************************************************************************)
VARIABLES
    \* a call of clean_label, and a second call on its result
    parts,          \* how the raw label was put together
    label,          \* the raw label
    protein_name,   \* the family-name hint
    cleaned,        \* clean_label(label, protein_name)
    recleaned,      \* clean_label(cleaned, protein_name)
    lpc,            \* "input", "cleaned", "recleaned"; "idle" when unused
    \* a call of clean_newick_string
    leaves,         \* the leaves of the serialized tree: label and branch
    newick_str,     \* the serialized tree
    newick_hint,    \* the family-name hint
    newick_out,     \* clean_newick_string(newick_str, newick_hint)
    npc,            \* "input", "done"; "idle" when unused
    \* a call of clean_taxa_in_tree
    tree0,          \* the tree as it was passed in
    clades,         \* the tree: clade -> name, branch length, support, parent
    taxa_hint,      \* the family-name hint
    visited,        \* the clades the loop has been through
    tpc,            \* "loop", "done"; "idle" when unused
    \* a call of tree()
    mega_output,    \* the argument: the expected output path
    fs,             \* the disk: file -> content, or Absent
    unflushed,      \* what MEGA-CC wrote that is not on disk yet
    returncode,     \* <<mega_run.returncode>>, <<>> while mega_run is unbound
    target,         \* the local mega_output once the output was looked for
    fs_checked,     \* the files as they were when the output was looked for
    newick,         \* the content read from the output file
    tree_obj,       \* the parsed tree, a sequence of clade names
    error,          \* the exception tree() raised, "none" if none
    ops,            \* the steps taken so far, in order
    xpc,            \* where tree() is; "idle" when unused
    \* a call of filter_valid_sequences()
    sequences,      \* the descriptions of the records of the input file
    block_size,     \* the argument
    wp_data,        \* description -> the code found in it
    all_wp_codes,   \* the distinct codes, in the order list(set(...)) gave
    valid_wp_codes, \* the codes confirmed so far
    block_start,    \* i, the start of the current block
    block,          \* the current block of codes
    valid_codes_block, \* the codes of the block confirmed so far
    block_pos,      \* the next code of the block, from 1
    call,           \* the running call of check_uniprot_single
    answers,        \* code -> what check_uniprot_single returned for it
    written,        \* the descriptions of the records written
    upc             \* where the run is; "idle" when unused

labelVars == <<parts, label, protein_name, cleaned, recleaned, lpc>>
newickVars == <<leaves, newick_str, newick_hint, newick_out, npc>>
taxaVars == <<tree0, clades, taxa_hint, visited, tpc>>
treeVars == <<mega_output, fs, unflushed, returncode, target, fs_checked,
              newick, tree_obj, error, ops, xpc>>
uniprotVars == <<sequences, block_size, wp_data, all_wp_codes, valid_wp_codes,
                 block_start, block, valid_codes_block, block_pos, call,
                 answers, written, upc>>
vars == <<labelVars, newickVars, taxaVars, treeVars, uniprotVars>>

(***************************************************************************)
(* Raw labels.                                                             *)
(***************************************************************************)
\* the longest species name, in words
MaxWords == 2
\* the longest free-form label, in fragments
MaxChunks == 3

\* "alkene_reductase"
DefaultProtein == <<97,108,107,101,110,101,95,114,101,100,117,99,116,97,115,101>>
\* "an"
Hints == {DefaultProtein, <<97,110>>}
\* "WP_072607337.1"
AccessionCode == <<87,80,95,48,55,50,54,48,55,51,51,55,46,49>>
\* "---C"
ClusterLit == <<45,45,45,67>>
JoinChars == {95, 32}
SpeciesWords ==
    \* "Aquibium"
    { <<65,113,117,105,98,105,117,109>>,
      \* "oceanicum"
      <<111,99,101,97,110,105,99,117,109>>,
      \* "unclassified"
      <<117,110,99,108,97,115,115,105,102,105,101,100>>,
      \* "samedomains"
      <<115,97,109,101,100,111,109,97,105,110,115>> }
\* "51"
ClusterDigits == { <<53>>, <<53,49>> }
SameDomainsMarkers ==
    { <<>>,
      \* "---Same_Domains"
      <<45,45,45,83,97,109,101,95,68,111,109,97,105,110,115>>,
      \* " Same Domains"
      <<32,83,97,109,101,32,68,111,109,97,105,110,115>> }

\* the words of a species name joined by one character
JoinWords(words, j) ==
    LET join[k \in 0..Len(words)] ==
            IF k = 0 THEN <<>>
            ELSE IF k = 1 THEN words[1]
            ELSE join[k - 1] \o <<j>> \o words[k]
    IN  join[Len(words)]

SpeciesText(p) == JoinWords(p.species, p.joiner)
\* what follows the family name in a structured label
AfterFamily(p) ==
    <<p.sep12>> \o SpeciesText(p) \o <<p.sep3>> \o ClusterLit \o p.digits \o p.marker
\* <code><sep><family><sep><species><sep>---C<digits>[marker]
StructuredLabel(p, family) ==
    AccessionCode \o <<p.sep12>> \o family \o AfterFamily(p)

StructuredParts ==
    { [kind |-> "structured", species |-> w, joiner |-> j, sep12 |-> a,
       sep3 |-> b, digits |-> d, marker |-> m] :
        w \in UNION {[1..n -> SpeciesWords] : n \in 1..MaxWords},
        j \in JoinChars, a \in JoinChars, b \in JoinChars,
        d \in ClusterDigits, m \in SameDomainsMarkers }

NoParts(kind) ==
    [kind |-> kind, species |-> <<>>, joiner |-> 95, sep12 |-> 95,
     sep3 |-> 95, digits |-> <<>>, marker |-> <<>>]

Chunks ==
    \* "Ab_---C1"
    { <<65,98,95,45,45,45,67,49>>,
      \* "cd ---C22"
      <<99,100,32,45,45,45,67,50,50>>,
      \* "alkene reductase "
      <<97,108,107,101,110,101,32,114,101,100,117,99,116,97,115,101,32>>,
      \* "MULTISPECIES: "
      <<77,85,76,84,73,83,80,69,67,73,69,83,58,32>>,
      \* "---Same_Domains"
      <<45,45,45,83,97,109,101,95,68,111,109,97,105,110,115>>,
      \* "Ef"
      <<69,102>>, <<32>>, <<95>> }
\* a label may come wrapped in quote characters
Wrappers == { <<>>, <<39>> }

Concat(seqs) ==
    LET cat[k \in 0..Len(seqs)] ==
            IF k = 0 THEN <<>> ELSE cat[k - 1] \o seqs[k]
    IN  cat[Len(seqs)]

FreeLabels ==
    { q \o Concat(c) \o q :
        q \in Wrappers, c \in UNION {[1..n -> Chunks] : n \in 0..MaxChunks} }

\* the two end-to-end examples
\* "WP_072607337.1_alkene_reductase_Aquibium_oceanicum_---C51---Same_Domains"
ExampleAquibium == <<87,80,95,48,55,50,54,48,55,51,51,55,46,49,95,97,108,107,101,110,101,95,114,101,100,117,99,116,97,115,101,95,65,113,117,105,98,105,117,109,95,111,99,101,97,110,105,99,117,109,95,45,45,45,67,53,49,45,45,45,83,97,109,101,95,68,111,109,97,105,110,115>>
\* "MULTISPECIES: oxidoreductase unclassified Bacillus_subtilis---C3"
ExampleBacillus == <<77,85,76,84,73,83,80,69,67,73,69,83,58,32,111,120,105,100,111,114,101,100,117,99,116,97,115,101,32,117,110,99,108,97,115,115,105,102,105,101,100,32,66,97,99,105,108,108,117,115,95,115,117,98,116,105,108,105,115,45,45,45,67,51>>
ExampleLabels == {ExampleAquibium, ExampleBacillus}
\* calls <<label, hint>> with characters outside ASCII, and with a hint that
\* holds a backslash before "_"
SpecialCalls ==
    {
      \* "WP_07260733<U+0663>.1_Ab_---C1", hint "x": an Arabic-Indic digit in the code
      << <<87,80,95,48,55,50,54,48,55,51,51,1635,46,49,95,65,98,95,45,45,45,67,49>>,
         <<120>> >>,
      \* "Ab_---C<U+0663>", hint "x"
      << <<65,98,95,45,45,45,67,1635>>,
         <<120>> >>,
      \* "<U+212A>b ---C1", hint "x": the Kelvin sign
      << <<8490,98,32,45,45,45,67,49>>,
         <<120>> >>,
      \* "<U+00E9>unclassified Ab_---C1", hint "x"
      << <<233,117,110,99,108,97,115,115,105,102,105,101,100,32,65,98,95,45,45,45,67,49>>,
         <<120>> >>,
      \* "WP<U+000B>072607337.1_Ab_---C1", hint "x": a vertical tab
      << <<87,80,11,48,55,50,54,48,55,51,51,55,46,49,95,65,98,95,45,45,45,67,49>>,
         <<120>> >>,
      \* "Ab<U+00A0>---C1", hint "x": a no-break space
      << <<65,98,160,45,45,45,67,49>>,
         <<120>> >>,
      \* "<U+00C9>f Ab ---C1", hint "<U+00E9>f"
      << <<201,102,32,65,98,32,45,45,45,67,49>>,
         <<233,102>> >>,
      \* "<U+017F>ame Domains Ab ---C1", hint "x": a long s
      << <<383,97,109,101,32,68,111,109,97,105,110,115,32,65,98,32,45,45,45,67,49>>,
         <<120>> >>,
      \* "a\_b Ab_---C1", hint "a\_b"
      << <<97,92,95,98,32,65,98,95,45,45,45,67,49>>,
         <<97,92,95,98>> >>,
      \* "a[ _]]b Ab_---C1", hint "a\_b"
      << <<97,91,32,95,93,93,98,32,65,98,95,45,45,45,67,49>>,
         <<97,92,95,98>> >> }
ExampleCalls == {<<l, h>> : l \in ExampleLabels, h \in Hints} \cup SpecialCalls

LabelIdle ==
    /\ parts = NoParts("idle")
    /\ label = <<>>
    /\ protein_name = <<>>
    /\ cleaned = <<>>
    /\ recleaned = <<>>
    /\ lpc = "idle"

LabelInit ==
    /\ \/ /\ protein_name \in Hints
          /\ parts \in StructuredParts
          /\ label = StructuredLabel(parts, protein_name)
       \/ /\ protein_name \in Hints
          /\ parts = NoParts("free")
          /\ label \in FreeLabels
       \/ /\ parts = NoParts("example")
          /\ \E c \in ExampleCalls : label = c[1] /\ protein_name = c[2]
    /\ cleaned = <<>>
    /\ recleaned = <<>>
    /\ lpc = "input"

\* a call clean_label(label, protein_name)
Clean ==
    /\ lpc = "input"
    /\ cleaned' = clean_label(label, protein_name)
    /\ lpc' = "cleaned"
    /\ UNCHANGED <<parts, label, protein_name, recleaned>>

\* a second call, on the result of the first
Reclean ==
    /\ lpc = "cleaned"
    /\ recleaned' = clean_label(cleaned, protein_name)
    /\ lpc' = "recleaned"
    /\ UNCHANGED <<parts, label, protein_name, cleaned>>

LabelNext == (Clean \/ Reclean) /\ UNCHANGED <<newickVars, taxaVars, treeVars, uniprotVars>>

(***************************************************************************)
(* Serialized trees: "(" leaf "," ... ")" ";", a leaf a label and an       *)
(* optional branch length.                                                 *)
(***************************************************************************)
\* the most leaves of a serialized tree
MaxLeaves == 2

NewickLabels ==
    \* "Ab_---C1"
    { <<65,98,95,45,45,45,67,49>>,
      \* "WP_072607337.1_alkene_reductase_Ab_---C1"
      <<87,80,95,48,55,50,54,48,55,51,51,55,46,49,95,97,108,107,101,110,101,95,114,101,100,117,99,116,97,115,101,95,65,98,95,45,45,45,67,49>>,
      \* "'Ab cd ---C22'"
      <<39,65,98,32,99,100,32,45,45,45,67,50,50,39>>,
      \* "Ab_---C1---Same_Domains"
      <<65,98,95,45,45,45,67,49,45,45,45,83,97,109,101,95,68,111,109,97,105,110,115>>,
      \* "Ef"
      <<69,102>> }
\* ":0.13", ":1e-05"
BranchLengths == { <<>>, <<58,48,46,49,51>>, <<58,49,101,45,48,53>> }
Leaves == [label : NewickLabels, branch : BranchLengths]

\* "(" leaf "," leaf ... ")" ";" with the label of leaf k written as labs[k]
Serialize(ls, labs) ==
    LET body[k \in 0..Len(ls)] ==
            IF k = 0 THEN <<>>
            ELSE body[k - 1] \o (IF k > 1 THEN <<44>> ELSE <<>>)
                    \o labs[k] \o ls[k].branch
    \* ");"
    IN  <<40>> \o body[Len(ls)] \o <<41, 59>>

Newick(ls) == Serialize(ls, [k \in 1..Len(ls) |-> ls[k].label])

NewickIdle ==
    /\ leaves = <<>>
    /\ newick_str = <<>>
    /\ newick_hint = <<>>
    /\ newick_out = <<>>
    /\ npc = "idle"

NewickInit ==
    /\ leaves \in UNION {[1..n -> Leaves] : n \in 1..MaxLeaves}
    /\ newick_str = Newick(leaves)
    /\ newick_hint \in Hints
    /\ newick_out = <<>>
    /\ npc = "input"

\* a call clean_newick_string(newick_str, newick_hint)
CleanNewick ==
    /\ npc = "input"
    /\ newick_out' = clean_newick_string(newick_str, newick_hint)
    /\ npc' = "done"
    /\ UNCHANGED <<leaves, newick_str, newick_hint>>

NewickNext == CleanNewick /\ UNCHANGED <<labelVars, taxaVars, treeVars, uniprotVars>>

(***************************************************************************)
(* clean_taxa_in_tree, subprocess_functions.py lines 14-22.  A tree is its *)
(* clades 1..n, clade 1 the root; a clade has a name (None, or a str), a   *)
(* branch length, a support value and a parent.                            *)
(***************************************************************************)
\* the most clades of a tree
MaxClades == 3

CladeNames ==
    { [has_name |-> FALSE, name |-> <<>>],      \* None
      [has_name |-> TRUE, name |-> <<>>],       \* ""
      \* "Ab_---C1"
      [has_name |-> TRUE, name |-> <<65,98,95,45,45,45,67,49>>],
      \* "'alkene_reductase Ab cd ---C22 Same Domains'"
      [has_name |-> TRUE, name |-> <<39,97,108,107,101,110,101,95,114,101,100,117,99,116,97,115,101,32,65,98,32,99,100,32,45,45,45,67,50,50,32,83,97,109,101,32,68,111,109,97,105,110,115,39>>] }

\* the parent of every clade: 0 for the root, an earlier clade for the others
Shapes(n) ==
    {p \in [1..n -> 0..n] : p[1] = 0 /\ \A c \in 2..n : p[c] \in 1..(c - 1)}

\* branch lengths and support values, told apart by clade
Measures == {0, 10}

Trees ==
    UNION { { [c \in 1..n |->
                 [has_name |-> nm[c].has_name, name |-> nm[c].name,
                  branch_length |-> m + c, confidence |-> m + 2 * c,
                  parent |-> p[c]]] :
              nm \in [1..n -> CladeNames], p \in Shapes(n), m \in Measures }
          : n \in 1..MaxClades }

\* the loop body with the hint not passed on to clean_label
CleanCladeDefaultHint(clade, hint) ==
    IF clade.has_name /\ clade.name # <<>>
    THEN [clade EXCEPT !.name = clean_label(clade.name, DefaultProtein)]
    ELSE clade

\* lines 19-21: the loop body, for one clade
CleanClade(clade, hint) ==
    IF clade.has_name /\ clade.name # <<>>
    THEN [clade EXCEPT !.name = clean_label(clade.name, hint)]
    ELSE clade

TaxaIdle ==
    /\ tree0 = <<>>
    /\ clades = <<>>
    /\ taxa_hint = <<>>
    /\ visited = {}
    /\ tpc = "idle"

TaxaInit ==
    /\ tree0 \in Trees
    /\ clades = tree0
    /\ taxa_hint \in Hints
    /\ visited = {}
    /\ tpc = "loop"

\* line 18-21: the loop takes the next clade of tree.find_clades().  The
\* order of find_clades is left open: any clade not yet visited may be next.
VisitClade ==
    /\ tpc = "loop"
    /\ \E c \in DOMAIN clades \ visited :
          /\ clades' = [clades EXCEPT ![c] = CleanClade(clades[c], taxa_hint)]
          /\ visited' = visited \cup {c}
    /\ UNCHANGED <<tree0, taxa_hint, tpc>>

\* line 22: the loop is over, the tree is returned
ReturnTree ==
    /\ tpc = "loop"
    /\ visited = DOMAIN clades
    /\ tpc' = "done"
    /\ UNCHANGED <<tree0, clades, taxa_hint, visited>>

TaxaNext == (VisitClade \/ ReturnTree) /\ UNCHANGED <<labelVars, newickVars, treeVars, uniprotVars>>

(***************************************************************************)
(* tree(), subprocess_functions.py lines 111-173.  MEGA-CC, the file       *)
(* system and Bio.Phylo are the environment: MEGA-CC exits with some       *)
(* status and leaves its output at the expected path, at the alternative   *)
(* path or nowhere; a path holds a tree (its clade names), text that       *)
(* Phylo.read cannot parse, bytes that are no text, or a directory.        *)
(* An exception is named by its class.                                     *)
(***************************************************************************)
Absent == [kind |-> "absent", names |-> <<>>]
\* text that Phylo.read cannot parse, an empty file included
Garbage == [kind |-> "garbage", names |-> <<>>]
\* bytes that f.read() cannot decode
Undecodable == [kind |-> "undecodable", names |-> <<>>]
\* a directory: os.path.exists holds, open() raises
Directory == [kind |-> "directory", names |-> <<>>]
TreeFile(names) == [kind |-> "tree", names |-> names]

\* the tree MEGA-CC builds: raw labels, and an inner clade with no name
RawTree ==
    TreeFile(<< [has_name |-> FALSE, name |-> <<>>],
                \* "Ab_---C1---Same_Domains"
                [has_name |-> TRUE, name |-> <<65,98,95,45,45,45,67,49,45,45,45,83,97,109,101,95,68,111,109,97,105,110,115>>],
                \* "alkene_reductase_Ef ---C22"
                [has_name |-> TRUE, name |-> <<97,108,107,101,110,101,95,114,101,100,117,99,116,97,115,101,95,69,102,32,45,45,45,67,50,50>>] >>)
\* a file left by an earlier run
\* "Ef_---C5"
StaleTree == TreeFile(<< [has_name |-> TRUE, name |-> <<69,102,95,45,45,45,67,53>>] >>)
\* what an earlier run or another program may have left at a path
StaleContents == {StaleTree, Undecodable, Directory}
\* what MEGA-CC may write
MegaOutputs == {RawTree, Garbage, Undecodable}
\* the exceptions of subprocess.run when MEGA-CC cannot be started: megacc
\* is not on PATH, may not be executed, lies behind a PATH entry that is a
\* regular file, is no program (OSError, Exec format error).  Here and
\* below OSError stands for itself and for the subclasses not listed.
LaunchErrors ==
    {"FileNotFoundError", "PermissionError", "NotADirectoryError", "OSError"}
\* the exceptions of open() that any path can raise
OpenErrors == {"OSError", "PermissionError"}
\* the exceptions of Phylo.read: a malformed tree, or text that holds no
\* tree or more than one
ParseErrors == {"NewickError", "ValueError"}
\* the exceptions of lines 164-169
WriteErrors == OpenErrors
\* the exit statuses of MEGA-CC; a negative one when a signal ended it
ExitStatuses == {0, 1, 2, -9}

\* the mega_output arguments: with an extension, without one, with two
\* dots, already ending in .mega, and a file name without an extension
\* under the current directory or under a directory with a dot in its name
OutputPaths ==
    \* "t.nwk", "t", "a.b.nwk"
    { <<116,46,110,119,107>>, <<116>>, <<97,46,98,46,110,119,107>>,
      \* "t.mega", "./t", "o.d/t"
      <<116,46,109,101,103,97>>, <<46,47,116>>, <<111,46,100,47,116>> }
\* ".mega"
MegaExtension == <<46,109,101,103,97>>
\* the paths tree() or MEGA-CC may use: the paths above and the .mega
\* paths next to them
Paths ==
    OutputPaths \cup
    \* "a.b.mega", "./t.mega"
    { <<97,46,98,46,109,101,103,97>>, <<46,47,116,46,109,101,103,97>>,
      \* "o.d/t.mega", "o.mega"
      <<111,46,100,47,116,46,109,101,103,97>>, <<111,46,109,101,103,97>>,
      MegaExtension }

\* the file a path names: "./" at its start names the current directory, so
\* "./t" and "t" are one file
RECURSIVE FileOf(_)
FileOf(path) ==
    IF Len(path) >= 2 /\ path[1] = 46 /\ path[2] = 47
    THEN FileOf(SubSeq(path, 3, Len(path)))
    ELSE path
\* the files that may be on disk
Files == {FileOf(path) : path \in Paths}

\* line 146: mega_output.rsplit('.', 1)[0] + ".mega"
Alternative(path) ==
    LET dots == {i \in 1..Len(path) : path[i] = 46}
    IN  (IF dots = {} THEN path ELSE Slice(path, 1, Max(dots))) \o MegaExtension

\* lines 144-152: the path of the output file, <<>> when there is none
ChooseOutput(files, expected) ==
    IF files[FileOf(expected)] # Absent THEN expected
    ELSE IF files[FileOf(Alternative(expected))] # Absent THEN Alternative(expected)
    ELSE <<>>

\* lines 144 and 148: the calls of os.path.exists, in order
Probes(files, expected) ==
    IF files[FileOf(expected)] # Absent
    THEN << <<"check", expected>> >>
    ELSE << <<"check", expected>>, <<"check", Alternative(expected)>> >>

\* line 162: clean_taxa_in_tree(tree_obj, protein_name='alkene_reductase')
clean_taxa_in_tree(names, hint) ==
    [c \in 1..Len(names) |-> CleanClade(names[c], hint)]

TreeIdle ==
    /\ mega_output = <<>>
    /\ fs = <<>>
    /\ unflushed = <<>>
    /\ returncode = <<>>
    /\ target = <<>>
    /\ fs_checked = <<>>
    /\ newick = Absent
    /\ tree_obj = <<>>
    /\ error = "none"
    /\ ops = <<>>
    /\ xpc = "idle"

TreeInit ==
    /\ mega_output \in OutputPaths
    /\ \/ fs = [f \in Files |-> Absent]
       \/ \E old \in Files, content \in StaleContents :
             fs = [f \in Files |-> IF f = old THEN content ELSE Absent]
    /\ unflushed = <<>>
    /\ returncode = <<>>
    /\ target = <<>>
    /\ fs_checked = <<>>
    /\ newick = Absent
    /\ tree_obj = <<>>
    /\ error = "none"
    /\ ops = <<>>
    /\ xpc = "start"

\* line 133: subprocess.run starts MEGA-CC
InvokeMega ==
    /\ xpc = "start"
    /\ xpc' = "running"
    /\ ops' = Append(ops, <<"invoke", <<>>>>)
    /\ UNCHANGED <<mega_output, fs, unflushed, returncode, target, fs_checked,
                   newick, tree_obj, error>>

\* line 133: MEGA-CC exits and subprocess.run returns.  It has written its
\* output at one of the two paths, or nowhere; what it wrote is on disk, or
\* reaches the disk a moment later.
MegaExits ==
    /\ xpc = "running"
    /\ \E rc \in ExitStatuses : returncode' = <<rc>>
    /\ \/ UNCHANGED <<fs, unflushed>>
       \/ \E where \in Files, content \in MegaOutputs :
             \/ fs' = [fs EXCEPT ![where] = content] /\ UNCHANGED unflushed
             \/ unflushed' = <<where, content>> /\ UNCHANGED fs
    /\ xpc' = "exited"
    /\ ops' = Append(ops, <<"exit", <<>>>>)
    /\ UNCHANGED <<mega_output, target, fs_checked, newick, tree_obj, error>>

\* line 133: MEGA-CC runs and exits, and what it printed cannot be decoded
\* (text=True): subprocess.run raises after MEGA-CC has written its output,
\* no exit status is returned and the exception leaves tree() at once
MegaOutputUndecodable ==
    /\ xpc = "running"
    /\ \/ fs' = fs
       \/ \E where \in Files, content \in MegaOutputs :
             fs' = [fs EXCEPT ![where] = content]
    /\ error' = "UnicodeDecodeError"
    /\ xpc' = "raised"
    /\ UNCHANGED <<mega_output, unflushed, returncode, target, fs_checked,
                   newick, tree_obj, ops>>

\* line 133: MEGA-CC cannot be started (not installed, not executable, no
\* program): subprocess.run raises and the exception leaves tree() at once
MegaCannotStart ==
    /\ xpc = "running"
    /\ \E e \in LaunchErrors : error' = e
    /\ xpc' = "raised"
    /\ UNCHANGED <<mega_output, fs, unflushed, returncode, target, fs_checked,
                   newick, tree_obj, ops>>

\* lines 136-138: a non-zero exit status is fatal
RaiseMegaFailed ==
    /\ xpc = "exited"
    /\ returncode # <<0>>
    /\ error' = "RuntimeError"
    /\ xpc' = "raised"
    /\ UNCHANGED <<mega_output, fs, unflushed, returncode, target, fs_checked,
                   newick, tree_obj, ops>>

\* line 141: time.sleep(5); what MEGA-CC wrote reaches the disk meanwhile
Sleep ==
    /\ xpc = "exited"
    /\ returncode = <<0>>
    /\ IF unflushed # <<>>
       THEN fs' = [fs EXCEPT ![unflushed[1]] = unflushed[2]]
       ELSE fs' = fs
    /\ unflushed' = <<>>
    /\ xpc' = "slept"
    /\ ops' = Append(ops, <<"wait", <<>>>>)
    /\ UNCHANGED <<mega_output, returncode, target, fs_checked, newick,
                   tree_obj, error>>

\* lines 144-149: the output file is found
FindOutput ==
    /\ xpc = "slept"
    /\ ChooseOutput(fs, mega_output) # <<>>
    /\ target' = ChooseOutput(fs, mega_output)
    /\ fs_checked' = fs
    /\ xpc' = "found"
    /\ ops' = ops \o Probes(fs, mega_output)
    /\ UNCHANGED <<mega_output, fs, unflushed, returncode, newick, tree_obj,
                   error>>

\* lines 150-152: the output file is at neither path
RaiseNotFound ==
    /\ xpc = "slept"
    /\ ChooseOutput(fs, mega_output) = <<>>
    /\ fs_checked' = fs
    /\ error' = "FileNotFoundError"
    /\ xpc' = "raised"
    /\ ops' = ops \o Probes(fs, mega_output)
    /\ UNCHANGED <<mega_output, fs, unflushed, returncode, target, newick,
                   tree_obj>>

\* lines 157-158, 171-173: the file cannot be opened (a directory never
\* can: IsADirectoryError, or PermissionError when it is unreadable) or its
\* bytes cannot be decoded; the exception is logged and raised again
ReadFails ==
    /\ xpc = "found"
    /\ \/ \E e \in OpenErrors : error' = e
       \/ fs[FileOf(target)] = Directory /\ error' = "IsADirectoryError"
       \/ fs[FileOf(target)] = Undecodable /\ error' = "UnicodeDecodeError"
    /\ xpc' = "raised"
    /\ ops' = Append(ops, <<"read", target>>)
    /\ UNCHANGED <<mega_output, fs, unflushed, returncode, target, fs_checked,
                   newick, tree_obj>>

\* lines 157-158: the file is read
ReadOutput ==
    /\ xpc = "found"
    /\ fs[FileOf(target)].kind \in {"tree", "garbage"}
    /\ newick' = fs[FileOf(target)]
    /\ xpc' = "read"
    /\ ops' = Append(ops, <<"read", target>>)
    /\ UNCHANGED <<mega_output, fs, unflushed, returncode, target, fs_checked,
                   tree_obj, error>>

\* a parse failure after which the file is written all the same
ParseFailsAndWrites ==
    /\ xpc = "read"
    /\ newick.kind # "tree"
    /\ fs' = [fs EXCEPT ![FileOf(target)] = TreeFile(<<>>)]
    /\ \E e \in ParseErrors : error' = e
    /\ xpc' = "raised"
    /\ ops' = Append(ops, <<"parse", target>>)
    /\ UNCHANGED <<mega_output, unflushed, returncode, target, fs_checked,
                   newick, tree_obj>>

\* lines 160, 171-173: Phylo.read cannot parse the text; the exception is
\* logged and raised again
ParseFails ==
    /\ xpc = "read"
    /\ newick.kind # "tree"
    /\ \E e \in ParseErrors : error' = e
    /\ xpc' = "raised"
    /\ ops' = Append(ops, <<"parse", target>>)
    /\ UNCHANGED <<mega_output, fs, unflushed, returncode, target, fs_checked,
                   newick, tree_obj>>

\* lines 160-162: the text is parsed and every clade name cleaned
ParseAndClean ==
    /\ xpc = "read"
    /\ newick.kind = "tree"
    /\ tree_obj' = clean_taxa_in_tree(newick.names, DefaultProtein)
    /\ xpc' = "cleaned"
    /\ ops' = Append(ops, <<"parse", target>>)
    /\ UNCHANGED <<mega_output, fs, unflushed, returncode, target, fs_checked,
                   newick, error>>

\* lines 164-170: the cleaned tree is serialized and written over the file
WriteOutput ==
    /\ xpc = "cleaned"
    /\ fs' = [fs EXCEPT ![FileOf(target)] = TreeFile(tree_obj)]
    /\ xpc' = "done"
    /\ ops' = Append(ops, <<"write", target>>)
    /\ UNCHANGED <<mega_output, unflushed, returncode, target, fs_checked,
                   newick, tree_obj, error>>

\* lines 164-173: open(..., 'w') raises and the file is as it was, or the
\* write raises after open(..., 'w') emptied the file.  The exception is
\* logged and raised again.
WriteFails ==
    /\ xpc = "cleaned"
    /\ \/ fs' = fs /\ \E e \in WriteErrors : error' = e
       \/ fs' = [fs EXCEPT ![FileOf(target)] = Garbage] /\ error' = "OSError"
    /\ xpc' = "raised"
    /\ ops' = Append(ops, <<"write", target>>)
    /\ UNCHANGED <<mega_output, unflushed, returncode, target, fs_checked,
                   newick, tree_obj>>

TreeNext ==
    /\ \/ InvokeMega \/ MegaCannotStart \/ MegaOutputUndecodable
       \/ MegaExits \/ RaiseMegaFailed
       \/ Sleep \/ FindOutput \/ RaiseNotFound \/ ReadFails \/ ReadOutput
       \/ ParseFails \/ ParseAndClean \/ WriteOutput \/ WriteFails
    /\ UNCHANGED <<labelVars, newickVars, taxaVars, uniprotVars>>

(***************************************************************************)
(* uniprot_sequences.py: check_uniprot_single (lines 9-41) and             *)
(* filter_valid_sequences (lines 43-80).  The two UniProt services are the *)
(* environment: the Swiss-Prot lookup succeeds or raises, and the REST     *)
(* query ends in one of the ways listed below.  A record is its            *)
(* description.                                                            *)
(***************************************************************************)
\* line 57: the end of a match of WP_\d{9}\.\d at i, 0 if there is none
UniprotCodeEnd(s, i) ==
    IF /\ i + 13 <= Len(s)
       /\ s[i] = 87 /\ s[i+1] = 80 /\ s[i+2] = 95
       /\ \A k \in 3..11 : s[i+k] \in Digit
       /\ s[i+12] = 46
       /\ s[i+13] \in Digit
    THEN i + 14 ELSE 0

\* line 57: where re.search finds the code, 0 if nowhere
CodeStart(description) ==
    Min({i \in 1..Len(description) : UniprotCodeEnd(description, i) # 0} \cup {Len(description) + 1}) %
        (Len(description) + 1)

\* lines 57-59: match.group(1), <<>> when there is no match
CodeOf(description) ==
    IF CodeStart(description) = 0 THEN <<>>
    ELSE Slice(description, CodeStart(description),
               UniprotCodeEnd(description, CodeStart(description)))

\* how the REST query of lines 34-37 can end
SecondaryOutcomes ==
    {"request_error", "http_error", "not_json", "json_list",
     "results_missing", "results_empty", "results_nonempty"}

\* every response with status 200 taken as a confirmation
SecondaryResultTrustingStatus(outcome) ==
    outcome \in {"results_missing", "results_empty", "results_nonempty"}

\* lines 34-41: bool(data.get("results")), False when anything raised
SecondaryResult(outcome) ==
    CASE outcome = "request_error" -> FALSE
      [] outcome = "http_error" -> FALSE
      [] outcome = "not_json" -> FALSE
      [] outcome = "json_list" -> FALSE
      [] outcome = "results_missing" -> FALSE
      [] outcome = "results_empty" -> FALSE
      [] outcome = "results_nonempty" -> TRUE

\* only the full blocks taken
BlockDroppingRemainder(codes, start, size) ==
    IF start + size <= Len(codes) THEN SubSeq(codes, start + 1, start + size)
    ELSE <<>>

\* line 69: all_wp_codes[i:i+block_size]
Block(codes, start, size) ==
    SubSeq(codes, start + 1, Min({start + size, Len(codes)}))

\* the orders list(set(...)) can give
Orders(S) ==
    {o \in [1..Cardinality(S) -> S] : \A a, b \in 1..Cardinality(S) : o[a] = o[b] => a = b}

\* lines 74-77: the records kept
ValidSequences(seqs, data, valid) ==
    LET Kept(d) == d \notin DOMAIN data \/ data[d] \in valid
    IN  SelectSeq(seqs, Kept)

MaxRecords == 3
MaxBlockSize == 3
\* "WP_000000001.1 a"
SeqFirstCode == <<87,80,95,48,48,48,48,48,48,48,48,49,46,49,32,97>>
\* "b WP_000000002.1"
SeqSecondCode == <<98,32,87,80,95,48,48,48,48,48,48,48,48,50,46,49>>
\* "WP_000000003.1 WP_000000001.1"
SeqTwoCodes == <<87,80,95,48,48,48,48,48,48,48,48,51,46,49,32,87,80,95,48,48,48,48,48,48,48,48,49,46,49>>
\* "sp|P1"
SeqNoCode == <<115,112,124,80,49>>
\* "WP 000000001.1"
SeqSpacedCode == <<87,80,32,48,48,48,48,48,48,48,48,49,46,49>>
\* "WP_00000001.1x"
SeqShortCode == <<87,80,95,48,48,48,48,48,48,48,49,46,49,120>>
\* "WP_00000000<U+0663>.1": the last of the nine digits is Arabic-Indic
SeqArabicDigit == <<87,80,95,48,48,48,48,48,48,48,48,1635,46,49>>
Descriptions ==
    {SeqFirstCode, SeqSecondCode, SeqTwoCodes, SeqNoCode, SeqSpacedCode,
     SeqShortCode, SeqArabicDigit}
RecordLists == UNION {[1..n -> Descriptions] : n \in 0..MaxRecords}
NoCall == [code |-> <<>>, primary |-> "none", secondary |-> "none", returned |-> "none"]

UniprotIdle ==
    /\ sequences = <<>>
    /\ block_size = 0
    /\ wp_data = <<>>
    /\ all_wp_codes = <<>>
    /\ valid_wp_codes = {}
    /\ block_start = 0
    /\ block = <<>>
    /\ valid_codes_block = {}
    /\ block_pos = 0
    /\ call = NoCall
    /\ answers = <<>>
    /\ written = <<>>
    /\ upc = "idle"

UniprotInit ==
    /\ sequences \in RecordLists
    /\ block_size \in 1..MaxBlockSize
    /\ wp_data = <<>>
    /\ all_wp_codes = <<>>
    /\ valid_wp_codes = {}
    /\ block_start = 0
    /\ block = <<>>
    /\ valid_codes_block = {}
    /\ block_pos = 0
    /\ call = NoCall
    /\ answers = <<>>
    /\ written = <<>>
    /\ upc = "start"

\* lines 52-67: the codes are extracted and put in some order
ExtractCodes ==
    /\ upc = "start"
    /\ LET coded == {sequences[k] : k \in {n \in 1..Len(sequences) : CodeOf(sequences[n]) # <<>>}}
       IN  /\ wp_data' = [d \in coded |-> CodeOf(d)]
           /\ all_wp_codes' \in Orders({CodeOf(d) : d \in coded})
    /\ valid_wp_codes' = {}
    /\ upc' = "loop"
    /\ UNCHANGED <<sequences, block_size, block_start, block, valid_codes_block, block_pos, call,
                   answers, written>>

\* lines 68-70: the next block is taken
NextBlock ==
    /\ upc = "loop"
    /\ block_start < Len(all_wp_codes)
    /\ block' = Block(all_wp_codes, block_start, block_size)
    /\ valid_codes_block' = {}
    /\ block_pos' = 1
    /\ upc' = "block"
    /\ UNCHANGED <<sequences, block_size, wp_data, all_wp_codes, valid_wp_codes,
                   block_start, call, answers, written>>

\* lines 70, 9: check_uniprot_single is called on the next code of the block
CallCheck ==
    /\ upc = "block"
    /\ block_pos <= Len(block)
    /\ call' = [code |-> block[block_pos], primary |-> "called", secondary |-> "none",
                returned |-> "none"]
    /\ upc' = "primary"
    /\ UNCHANGED <<sequences, block_size, wp_data, all_wp_codes, valid_wp_codes,
                   block_start, block, valid_codes_block, block_pos, answers, written>>

\* lines 21-23: the Swiss-Prot record is fetched and read
PrimaryFound ==
    /\ upc = "primary"
    /\ call' = [call EXCEPT !.primary = "found", !.returned = TRUE]
    /\ upc' = "returned"
    /\ UNCHANGED <<sequences, block_size, wp_data, all_wp_codes, valid_wp_codes,
                   block_start, block, valid_codes_block, block_pos, answers, written>>

\* lines 24-32: the Swiss-Prot lookup raised
PrimaryFails ==
    /\ upc = "primary"
    /\ call' = [call EXCEPT !.primary = "failed"]
    /\ upc' = "secondary"
    /\ UNCHANGED <<sequences, block_size, wp_data, all_wp_codes, valid_wp_codes,
                   block_start, block, valid_codes_block, block_pos, answers, written>>

\* lines 33-41: the REST service is queried
QuerySecondary ==
    /\ upc = "secondary"
    /\ \E outcome \in SecondaryOutcomes :
          call' = [call EXCEPT !.secondary = outcome,
                               !.returned = SecondaryResult(outcome)]
    /\ upc' = "returned"
    /\ UNCHANGED <<sequences, block_size, wp_data, all_wp_codes, valid_wp_codes,
                   block_start, block, valid_codes_block, block_pos, answers, written>>

\* line 70: the code is kept if the call returned True
CollectAnswer ==
    /\ upc = "returned"
    /\ valid_codes_block' =
          IF call.returned THEN valid_codes_block \cup {call.code}
          ELSE valid_codes_block
    /\ answers' = [c \in DOMAIN answers \cup {call.code} |->
                      IF c = call.code THEN call.returned ELSE answers[c]]
    /\ block_pos' = block_pos + 1
    /\ call' = NoCall
    /\ upc' = "block"
    /\ UNCHANGED <<sequences, block_size, wp_data, all_wp_codes, valid_wp_codes,
                   block_start, block, written>>

\* lines 71, 68: the block is done
EndBlock ==
    /\ upc = "block"
    /\ block_pos > Len(block)
    /\ valid_wp_codes' = valid_wp_codes \cup valid_codes_block
    /\ block_start' = block_start + block_size
    /\ upc' = "loop"
    /\ UNCHANGED <<sequences, block_size, wp_data, all_wp_codes, block,
                   valid_codes_block, block_pos, call, answers, written>>

\* lines 74-80: the records kept are written
WriteValid ==
    /\ upc = "loop"
    /\ block_start >= Len(all_wp_codes)
    /\ written' = ValidSequences(sequences, wp_data, valid_wp_codes)
    /\ upc' = "done"
    /\ UNCHANGED <<sequences, block_size, wp_data, all_wp_codes, valid_wp_codes,
                   block_start, block, valid_codes_block, block_pos, call, answers>>

UniprotNext ==
    /\ \/ ExtractCodes \/ NextBlock \/ CallCheck \/ PrimaryFound \/ PrimaryFails
       \/ QuerySecondary \/ CollectAnswer \/ EndBlock \/ WriteValid
    /\ UNCHANGED <<labelVars, newickVars, taxaVars, treeVars>>

\* each specification runs one operation; the others are not running
LabelStart == LabelInit /\ NewickIdle /\ TaxaIdle /\ TreeIdle /\ UniprotIdle
NewickStart == NewickInit /\ LabelIdle /\ TaxaIdle /\ TreeIdle /\ UniprotIdle
TaxaStart == TaxaInit /\ LabelIdle /\ NewickIdle /\ TreeIdle /\ UniprotIdle
TreeStart == TreeInit /\ LabelIdle /\ NewickIdle /\ TaxaIdle /\ UniprotIdle
UniprotStart == UniprotInit /\ LabelIdle /\ NewickIdle /\ TaxaIdle /\ TreeIdle

SpecLabel == LabelStart /\ [][LabelNext]_vars
SpecNewick == NewickStart /\ [][NewickNext]_vars
SpecTaxa == TaxaStart /\ [][TaxaNext]_vars
SpecTree == TreeStart /\ [][TreeNext]_vars
SpecUniprot == UniprotStart /\ [][UniprotNext]_vars
(***************************************************************************)
(* Properties of clean_label.                                              *)
(***************************************************************************)
Canonical(species, digits) ==
    JoinWords(species, 95) \o <<95>> \o ClusterLit \o digits

EqFold(a, b) == Len(a) = Len(b) /\ LitAtFold(a, 1, b)
OccursFold(lit, s) == \E i \in 1..Len(s) : LitAtFold(s, i, lit)

\* the hint is a name: an ASCII letter or digit, then ASCII letters, digits
\* and underscores
AsciiAlnum == Upper \cup Lower \cup AsciiDigit
HintIsName(h) ==
    /\ Len(h) > 0
    /\ h[1] \in AsciiAlnum
    /\ \A k \in 1..Len(h) : h[k] \in AsciiAlnum \cup {95}

\* nothing of the species and cluster text is itself noise to remove
NoNoiseInSpecies(p, h) ==
    /\ HintIsName(h)
    /\ ~OccursFold(h, AfterFamily(p))
    /\ \A k \in 1..Len(p.species) : ~EqFold(p.species[k], UnclassifiedLit)
    /\ \A i \in 1..Len(SpeciesText(p)) : SameDomainsEnd(SpeciesText(p), i) = 0

\* "Aquibium_oceanicum_---C51"
AquibiumCanonical == <<65,113,117,105,98,105,117,109,95,111,99,101,97,110,105,99,117,109,95,45,45,45,67,53,49>>

\* C1 as stated: every label <code><sep><family><sep><species><sep>---C<digits>
\* with an optional Same-Domains marker is cleaned to <species>_---C<digits>,
\* and the Aquibium example is cleaned to Aquibium_oceanicum_---C51.
C1_EveryStructuredLabel ==
    lpc # "input" =>
        /\ parts.kind = "structured" =>
              cleaned = Canonical(parts.species, parts.digits)
        /\ (label = ExampleAquibium /\ protein_name = DefaultProtein) =>
              cleaned = AquibiumCanonical

\* C1 amended: the same, for a hint that is a name and a species in which
\* nothing is noise: ignoring case, the hint does not occur after the family
\* name, no species word is "unclassified" and no Same...Domains sequence
\* occurs in the species.
C1_StructuredLabelWithoutNoise ==
    lpc # "input" =>
        /\ (parts.kind = "structured" /\ NoNoiseInSpecies(parts, protein_name)) =>
              cleaned = Canonical(parts.species, parts.digits)
        /\ (label = ExampleAquibium /\ protein_name = DefaultProtein) =>
              cleaned = AquibiumCanonical

C1_Witness ==
    /\ lpc = "cleaned"
    /\ parts.kind = "structured"
    /\ NoNoiseInSpecies(parts, protein_name)
    /\ Len(parts.species) = 2
    /\ parts.joiner = 32
    /\ parts.marker # <<>>
    /\ cleaned = Canonical(parts.species, parts.digits)

\* C2 as stated: clean_label is idempotent, for every label and every hint.
C2_Idempotent ==
    lpc = "recleaned" => recleaned = cleaned

\* "oxidoreductase  Bacillus_subtilis---C3"
BacillusFallback == <<111,120,105,100,111,114,101,100,117,99,116,97,115,101,32,32,66,97,99,105,108,108,117,115,95,115,117,98,116,105,108,105,115,45,45,45,67,51>>
\* "Bacillus_subtilis_---C3"
BacillusCanonical == <<66,97,99,105,108,108,117,115,95,115,117,98,116,105,108,105,115,95,45,45,45,67,51>>

IsBacillusCall == label = ExampleBacillus /\ protein_name = DefaultProtein

\* C8 as stated: the Bacillus example is cleaned to Bacillus_subtilis_---C3.
C8_BacillusCanonical ==
    (IsBacillusCall /\ lpc # "input") => cleaned = BacillusCanonical

\* C8 amended: the Bacillus example is cleaned to
\* "oxidoreductase  Bacillus_subtilis---C3": the MULTISPECIES marker and the
\* word "unclassified" are removed, the family word, which is not the hint,
\* stays, and the cluster marker, attached to the species with no separator,
\* is not recognised, so the text left by the noise removal is returned.
C8_BacillusFallback ==
    (IsBacillusCall /\ lpc # "input") =>
        /\ cleaned = BacillusFallback
        /\ PatternSearch(RemoveNoise(label, protein_name)) = <<>>

C8_Witness == IsBacillusCall /\ lpc = "cleaned" /\ cleaned = BacillusFallback

\* the result built from the match whose species group ends at e
BuiltFrom(s, e) ==
    LET m == MatchEndingAt(s, e)
        species == Slice(s, m[1], m[2])
    IN  [i \in 1..Len(species) |-> IF species[i] = 32 THEN 95 ELSE species[i]]
            \o <<95>> \o Slice(s, m[3], m[4])

Denoised == RemoveNoise(label, protein_name)

\* C9 as stated: with more than one match after the noise removal, the
\* result is built from the match that appears latest.
C9_LatestMatch ==
    (lpc # "input" /\ Cardinality(SpeciesEnds(Denoised)) > 1) =>
        cleaned = BuiltFrom(Denoised, Max(SpeciesEnds(Denoised)))

\* C9 amended: with more than one match after the noise removal, the result
\* is built from the match that appears first.
C9_FirstMatch ==
    (lpc # "input" /\ Cardinality(SpeciesEnds(Denoised)) > 1) =>
        cleaned = BuiltFrom(Denoised, Min(SpeciesEnds(Denoised)))

C9_Witness ==
    /\ lpc = "cleaned"
    /\ Cardinality(SpeciesEnds(Denoised)) > 1
    /\ cleaned = BuiltFrom(Denoised, Min(SpeciesEnds(Denoised)))
    /\ cleaned # BuiltFrom(Denoised, Max(SpeciesEnds(Denoised)))

(***************************************************************************)
(* Properties of clean_newick_string.                                      *)
(***************************************************************************)
HasCluster(s) == \E k \in 1..Len(s) : ClusterEnd(s, k) > 0

\* a label as the claim has it cleaned: by clean_label when it holds a
\* cluster marker, left alone when it holds none
CleanedLabel(ls, k, h) ==
    IF HasCluster(ls[k].label) THEN clean_label(ls[k].label, h) ELSE ls[k].label

\* the branch-length suffixes of a serialized tree, in order
Suffixes(s) ==
    LET colons == {i \in 1..Len(s) : s[i] = 58}
        nth[k \in 1..Cardinality(colons)] ==
            Min({i \in colons : Cardinality({j \in colons : j < i}) = k - 1})
    IN  [k \in 1..Cardinality(colons) |-> Slice(s, nth[k], BranchEnd(s, nth[k]))]

\* the branch-length suffixes of the result are those of the input, in order
C7_SuffixesKept ==
    npc = "done" => Suffixes(newick_out) = Suffixes(newick_str)

\* C7 as stated: the result holds the branch-length suffixes of the input,
\* in order and character for character, each after the cleaned form of the
\* label it followed, and what holds no cluster marker is copied unchanged:
\* the result is the input with every label that holds a cluster marker
\* replaced by its cleaned form.
C7_LabelsCleanedSuffixesKept ==
    npc = "done" =>
        /\ Suffixes(newick_out) = Suffixes(newick_str)
        /\ newick_out =
              Serialize(leaves, [k \in 1..Len(leaves) |->
                                    CleanedLabel(leaves, k, newick_hint)])


(***************************************************************************)
(* Properties of clean_taxa_in_tree.                                       *)
(***************************************************************************)
\* C6: when clean_taxa_in_tree returns, every clade that had a non-empty
\* name L is named clean_label(L, hint), every other clade has the name it
\* had; the clades, their parents, branch lengths and support values are as
\* before; and this is so whatever the order of the visits.
C6_OnlyLabelsCleaned ==
    tpc = "done" =>
        /\ DOMAIN clades = DOMAIN tree0
        /\ \A c \in DOMAIN tree0 :
              /\ clades[c].has_name = tree0[c].has_name
              /\ clades[c].name =
                    IF tree0[c].has_name /\ tree0[c].name # <<>>
                    THEN clean_label(tree0[c].name, taxa_hint)
                    ELSE tree0[c].name
              /\ clades[c].parent = tree0[c].parent
              /\ clades[c].branch_length = tree0[c].branch_length
              /\ clades[c].confidence = tree0[c].confidence

\* a tree of three clades is done: one with no name, one with an empty
\* name, one whose name was changed by the cleaning
C6_Witness ==
    /\ tpc = "done"
    /\ Len(clades) = 3
    /\ \E c \in DOMAIN clades : ~clades[c].has_name
    /\ \E c \in DOMAIN clades : clades[c].has_name /\ clades[c].name = <<>>
    /\ \E c \in DOMAIN clades : clades[c].name # tree0[c].name


(***************************************************************************)
(* tree(): the outcome and the order of the steps                          *)
(***************************************************************************)
\* the steps of kind k taken so far
OpsOf(kind) == {i \in 1..Len(ops) : ops[i][1] = kind}
PathOps == OpsOf("check") \cup OpsOf("read") \cup OpsOf("parse") \cup OpsOf("write")
Looked == fs_checked # <<>>

\* the path with the same stem as path and the extension .mega: the
\* extension is what follows the last '.' of the file name
FileNameStart(path) == 1 + Max({0} \cup {i \in 1..Len(path) : path[i] = 47})
SameStemMega(path) ==
    LET dots == {i \in FileNameStart(path)..Len(path) : path[i] = 46}
    IN  (IF dots = {} THEN path ELSE Slice(path, 1, Max(dots))) \o MegaExtension

\* the decision of tree() when alt is the alternate path
OutcomeDecidedWith(alt) ==
    /\ returncode \notin {<<>>, <<0>>} =>
          /\ xpc \in {"exited", "raised"}
          /\ PathOps = {}
          /\ ~Looked
    /\ (xpc = "raised" /\ returncode \notin {<<>>, <<0>>}) => error = "RuntimeError"
    /\ error = "RuntimeError" => returncode \notin {<<>>, <<0>>}
    /\ (Looked /\ fs_checked[FileOf(mega_output)] # Absent) =>
          /\ target = mega_output
          /\ error # "FileNotFoundError"
    /\ (Looked /\ fs_checked[FileOf(mega_output)] = Absent /\ fs_checked[FileOf(alt)] # Absent) =>
          /\ target = alt
          /\ error # "FileNotFoundError"
    /\ (Looked /\ fs_checked[FileOf(mega_output)] = Absent /\ fs_checked[FileOf(alt)] = Absent) =>
          /\ error = "FileNotFoundError"
          /\ xpc = "raised"
          /\ OpsOf("read") \cup OpsOf("write") = {}
          /\ fs = fs_checked
    /\ \A i \in OpsOf("read") \cup OpsOf("write") : ops[i][2] = target
    /\ xpc = "done" =>
          /\ OpsOf("read") # {} /\ OpsOf("write") # {}
          /\ fs[FileOf(target)] = TreeFile(clean_taxa_in_tree(fs_checked[FileOf(target)].names, DefaultProtein))

\* C3: a non-zero exit status raises RuntimeError and no output path is
\* checked, read or written; with exit status 0 the expected path, when it
\* exists, is the file cleaned; when it is absent and the path with the same
\* stem and the extension .mega exists, that one is read and overwritten; when
\* neither exists FileNotFoundError is raised and no file is written.
C3_OutcomeDecided == OutcomeDecidedWith(SameStemMega(mega_output))

\* the same decision holds when the alternate path is the one line 146
\* computes: the expected path cut at its last '.', plus ".mega"
C3_OutcomeWithComputedAlternative == OutcomeDecidedWith(Alternative(mega_output))

\* the position of a step in the pipeline
Rank(kind) ==
    CASE kind = "invoke" -> 1
      [] kind = "exit" -> 2
      [] kind = "wait" -> 3
      [] kind = "check" -> 4
      [] kind = "read" -> 5
      [] kind = "parse" -> 6
      [] kind = "write" -> 7

\* C10: the steps of tree() occur in the order invoke, exit, wait, check,
\* read, parse and normalize, write, none skipped; the file is read only
\* after exit status 0 and the wait; it is written at most once, and only
\* after the read, the parse and the cleaning of every label succeeded; when
\* the parse fails the error is raised and the file is as the tool left it.
C10_StrictPipeline ==
    /\ \A i, j \in 1..Len(ops) :
          i < j => \/ Rank(ops[i][1]) < Rank(ops[j][1])
                   \/ ops[i][1] = "check" /\ ops[j][1] = "check"
    /\ \A j \in 1..Len(ops) :
          \A r \in 1..(Rank(ops[j][1]) - 1) :
              \E i \in 1..(j - 1) : Rank(ops[i][1]) = r
    /\ OpsOf("read") # {} => (returncode = <<0>> /\ OpsOf("wait") # {})
    /\ Cardinality(OpsOf("write")) <= 1
    /\ OpsOf("write") # {} =>
          /\ OpsOf("read") # {} /\ OpsOf("parse") # {}
          /\ newick.kind = "tree"
          /\ tree_obj = clean_taxa_in_tree(newick.names, DefaultProtein)
          /\ \/ xpc = "done" /\ error = "none" /\ fs[FileOf(target)] = TreeFile(tree_obj)
             \/ xpc = "raised" /\ error \in WriteErrors
    /\ OpsOf("write") = {} => (Looked => fs = fs_checked)
    /\ (OpsOf("parse") # {} /\ newick.kind # "tree") =>
          /\ error \in ParseErrors
          /\ xpc = "raised"
          /\ fs[FileOf(target)] = newick
    /\ error # "none" => xpc = "raised"

\* the whole pipeline ran on the tree the tool wrote, and cleaning changed
\* the file
C10_Witness ==
    /\ xpc = "done"
    /\ newick = RawTree
    /\ fs[FileOf(target)] # RawTree
    /\ Len(ops) >= 7


(***************************************************************************)
(* check_uniprot_single and filter_valid_sequences                         *)
(***************************************************************************)
\* C5: check_uniprot_single returns a boolean whatever the services do: True
\* when the Swiss-Prot lookup succeeds, the REST service not queried; when
\* the lookup fails the REST service is queried, and the call returns True
\* exactly when the response carries a non-empty result set, False when the
\* set is empty or missing or the request, the status or the parsing failed.
C5_LookupContract ==
    /\ upc = "returned" => call.returned \in BOOLEAN
    /\ call.primary = "found" =>
          /\ call.returned = TRUE
          /\ call.secondary = "none"
    /\ call.primary = "failed" =>
          \/ upc = "secondary" /\ call.secondary = "none"
          \/ /\ call.secondary \in SecondaryOutcomes
             /\ call.returned = (call.secondary = "results_nonempty")
    /\ call.secondary # "none" => call.primary = "failed"
    /\ upc \in {"primary", "secondary"} => ENABLED UniprotNext

\* the Swiss-Prot lookup failed and the REST response was no JSON: the call
\* returned False
C5_Witness ==
    /\ upc = "returned"
    /\ call.primary = "failed"
    /\ call.secondary = "not_json"
    /\ call.returned = FALSE

\* the codes of the input, and the records the claim expects in the output
InputCodes == {CodeOf(sequences[k]) : k \in 1..Len(sequences)} \ {<<>>}
Confirmed(code) == code \in DOMAIN answers /\ answers[code]
Retained(description) == CodeOf(description) = <<>> \/ Confirmed(CodeOf(description))
ExpectedOutput == SelectSeq(sequences, Retained)

\* C4: whatever the lookups answer and whatever block_size >= 1 is, the
\* records written are the input records, in input order, that carry no
\* code or whose code was confirmed; every code of the input is looked up,
\* the run goes on after a lookup whatever it returned, and block_size and
\* the order of the codes have no part in the result.
C4_ExactlyValidWritten ==
    /\ upc = "done" =>
          /\ written = ExpectedOutput
          /\ DOMAIN answers = InputCodes
          /\ valid_wp_codes = {c \in InputCodes : answers[c]}
    /\ upc = "returned" => ENABLED UniprotNext

\* a run of several blocks that dropped a record, kept a record and met a
\* record without a code
C4_Witness ==
    /\ upc = "done"
    /\ block_size < Len(all_wp_codes)
    /\ written # sequences
    /\ written # <<>>
    /\ \E k \in 1..Len(sequences) : CodeOf(sequences[k]) = <<>>
    /\ \E c \in InputCodes : ~answers[c]

=============================================================================
